---------------------------- MODULE Spec2Model ----------------------------
(***************************************************************************)
(* Model of the bank-statement pipeline of src/src/index.ts (class         *)
(* ExcelParser): file submission, the asynchronous file read, header and   *)
(* column resolution, locale-ambiguous amount parsing, date parsing and    *)
(* transaction construction.                                               *)
(*                                                                         *)
(* Strings are sequences of one-character strings, so that toUpperCase,    *)
(* includes, split, replace and parseFloat are computed character by       *)
(* character as the JavaScript does.  Indices into JavaScript arrays are    *)
(* kept 0-based as in the source (findIndex yields -1 when nothing is       *)
(* found); the TLA+ sequence behind an array is read at index + 1.         *)
(***************************************************************************)
EXTENDS Integers, Sequences, FiniteSets, Bags, TLC

(***************************************************************************)
(* Bounds of the model                                                     *)
(***************************************************************************)
\* longest generated amount cell of the amount-parser specification
MaxCellLen == 4
\* longest generated amount cell of the transaction-builder specification
MaxAmountLen == 2
\* file reads that may be in flight at the same time
MaxPending == 2
\* words that follow the first word of a generated description
MaxMoreWords == 1
\* words of a generated recipient name
MaxNameWords == 3
\* transactions drawn after the fixed ones of a generated transaction list
MaxMoreTransactions == 2
\* times the aggregators are applied to one transaction list
MaxRuns == 2
\* the rows of a sheet drawn for the header discovery are at most
MaxGridRows == 3
\* the data rows of a statement drawn for the charts are at most
MaxChartRows == 3

(***************************************************************************)
(* Characters and strings                                                  *)
(***************************************************************************)
Digits == <<"0", "1", "2", "3", "4", "5", "6", "7", "8", "9">>

LowerCase == <<"a", "b", "c", "d", "e", "f", "g", "h", "i", "j", "k", "l", "m",
               "n", "o", "p", "q", "r", "s", "t", "u", "v", "w", "x", "y", "z">>

UpperCase == <<"A", "B", "C", "D", "E", "F", "G", "H", "I", "J", "K", "L", "M",
               "N", "O", "P", "Q", "R", "S", "T", "U", "V", "W", "X", "Y", "Z">>

IsDigit(c) == \E i \in 1..10 : Digits[i] = c

DigitVal(c) == (CHOOSE i \in 1..10 : Digits[i] = c) - 1

\* the letter C with caron, capital and small, of PLA(C)A and POVRA(C)ILO; each
\* is one character of a text
CCaron == "C-caron"
cCaron == "c-caron"

\* String.prototype.toUpperCase, one character
UpperChar(c) ==
  IF \E i \in 1..26 : LowerCase[i] = c
    THEN UpperCase[CHOOSE i \in 1..26 : LowerCase[i] = c]
    ELSE IF c = cCaron THEN CCaron
    ELSE c

\* String.prototype.toUpperCase
ToUpperCase(s) == [i \in 1..Len(s) |-> UpperChar(s[i])]

\* whether pat occurs in s at the 1-based position i
OccursAt(s, pat, i) ==
  /\ i >= 1
  /\ i + Len(pat) - 1 <= Len(s)
  /\ \A j \in 1..Len(pat) : s[i + j - 1] = pat[j]

\* String.prototype.includes
Includes(s, pat) == \E i \in 1..(Len(s) + 1) : OccursAt(s, pat, i)

\* String.prototype.lastIndexOf for a one-character needle, 0-based, -1 if absent
LastIndexOf(s, c) ==
  IF \E i \in 1..Len(s) : s[i] = c
    THEN (CHOOSE i \in 1..Len(s) : s[i] = c /\ \A j \in (i+1)..Len(s) : s[j] # c) - 1
    ELSE -1

\* String.prototype.indexOf for a one-character needle, 0-based, -1 if absent
IndexOf(s, c) ==
  IF \E i \in 1..Len(s) : s[i] = c
    THEN (CHOOSE i \in 1..Len(s) : s[i] = c /\ \A j \in 1..(i-1) : s[j] # c) - 1
    ELSE -1

\* String.prototype.replace(/c/g, ''): every occurrence of the character removed
RemoveAll(s, c) == SelectSeq(s, LAMBDA x : x # c)

\* String.prototype.replace(c, d) with a string pattern: the FIRST occurrence only
ReplaceFirst(s, c, d) ==
  LET i == IndexOf(s, c) + 1
  IN  IF i = 0 THEN s ELSE [j \in 1..Len(s) |-> IF j = i THEN d ELSE s[j]]

\* String.prototype.split for a one-character separator
RECURSIVE Split(_, _)
Split(s, sep) ==
  LET i == IndexOf(s, sep) + 1
  IN  IF i = 0 THEN <<s>>
      ELSE <<SubSeq(s, 1, i - 1)>> \o Split(SubSeq(s, i + 1, Len(s)), sep)

IsSpace(c) == c = " " \/ c = "\t"

\* String.prototype.trim
RECURSIVE TrimStart(_)
TrimStart(s) ==
  IF s # <<>> /\ IsSpace(s[1]) THEN TrimStart(Tail(s)) ELSE s

RECURSIVE TrimEnd(_)
TrimEnd(s) ==
  IF s # <<>> /\ IsSpace(s[Len(s)]) THEN TrimEnd(SubSeq(s, 1, Len(s) - 1)) ELSE s

Trim(s) == TrimEnd(TrimStart(s))

\* the longest prefix of s made of decimal digits
RECURSIVE DigitPrefix(_)
DigitPrefix(s) ==
  IF s # <<>> /\ IsDigit(s[1]) THEN <<s[1]>> \o DigitPrefix(Tail(s)) ELSE <<>>

\* the value of a sequence of decimal digits
RECURSIVE DigitsValue(_)
DigitsValue(ds) ==
  IF ds = <<>> THEN 0
  ELSE 10 * DigitsValue(SubSeq(ds, 1, Len(ds) - 1)) + DigitVal(ds[Len(ds)])

(***************************************************************************)
(* Numbers.  A JavaScript number obtained by parseFloat from a short       *)
(* decimal text is kept exactly, as n / 10^k with k minimal, or is NaN.    *)
(* Two decimal texts of at most 15 significant digits denote the same       *)
(* double iff they denote the same decimal, so equality of these records   *)
(* is equality of the doubles; -0 is identified with 0 (both are falsy      *)
(* and equal under === and >).                                              *)
(***************************************************************************)
NaN == [nan |-> TRUE, n |-> 0, k |-> 0]

RECURSIVE Num(_, _)
Num(n, k) ==
  IF k > 0 /\ n % 10 = 0 THEN Num(n \div 10, k - 1)
  ELSE [nan |-> FALSE, n |-> n, k |-> k]

Zero == Num(0, 0)

\* x || 0 for a number x: NaN and 0 are falsy
OrZero(v) == IF v.nan \/ v.n = 0 THEN Zero ELSE v

\* Math.abs
Abs(v) == IF v.nan THEN v ELSE [v EXCEPT !.n = IF v.n < 0 THEN -v.n ELSE v.n]

\* v > 0 (false for NaN)
IsPositive(v) == ~v.nan /\ v.n > 0

\* v !== 0 (true for NaN)
IsNonZero(v) == v.nan \/ v.n # 0

\* parseFloat: leading white space is skipped, then the longest prefix that is
\* a decimal literal ([+-] digits [. digits] or [+-] . digits) is converted and
\* the rest is ignored; NaN when there is no such prefix.  The exponent and
\* Infinity forms need a letter, which no text handed to parseFloat by this
\* program contains (see StripNonNumeric).
ParseFloat(s) ==
  LET t    == TrimStart(s)
      sgn  == t # <<>> /\ (t[1] = "-" \/ t[1] = "+")
      neg  == t # <<>> /\ t[1] = "-"
      u    == IF sgn THEN Tail(t) ELSE t
      ip   == DigitPrefix(u)
      r    == SubSeq(u, Len(ip) + 1, Len(u))
      fp   == IF r # <<>> /\ r[1] = "." THEN DigitPrefix(Tail(r)) ELSE <<>>
      mag  == DigitsValue(ip \o fp)
  IN  IF ip = <<>> /\ fp = <<>> THEN NaN
      ELSE Num(IF neg THEN -mag ELSE mag, Len(fp))

(***************************************************************************)
(* Amount normalization.  The source carries the same text three times:    *)
(* for the single amount column of erste (lines 392-417), for the income   *)
(* column (434-460) and for the expense column (474-500).                  *)
(***************************************************************************)
\* rawValue.replace(/[^\d,.-]/g, ''): every '-' is kept, wherever it stands
StripNonNumeric(s) ==
  SelectSeq(s, LAMBDA c : IsDigit(c) \/ c = "," \/ c = "." \/ c = "-")

\* CommaOnly with the bound on the last part off by one
CommaOnlyShorter(cleanValue) ==
  LET parts == Split(cleanValue, ",")
  IN  IF Len(parts) = 2 /\ Len(parts[2]) < 2
        THEN ReplaceFirst(cleanValue, ",", ".")
        ELSE RemoveAll(cleanValue, ",")

\* the comma-only branch: decimal comma iff two parts, the last of length <= 2
CommaOnly(cleanValue) ==
  LET parts == Split(cleanValue, ",")
  IN  IF Len(parts) = 2 /\ Len(parts[2]) <= 2
        THEN ReplaceFirst(cleanValue, ",", ".")
        ELSE RemoveAll(cleanValue, ",")

\* BothSeparators deciding by the first occurrences instead of the last
BothSeparatorsByFirst(cleanValue) ==
  IF IndexOf(cleanValue, ",") > IndexOf(cleanValue, ".")
    THEN ReplaceFirst(RemoveAll(cleanValue, "."), ",", ".")
    ELSE RemoveAll(cleanValue, ",")

\* the branch for a text holding both ',' and '.'
BothSeparators(cleanValue) ==
  IF LastIndexOf(cleanValue, ",") > LastIndexOf(cleanValue, ".")
    THEN ReplaceFirst(RemoveAll(cleanValue, "."), ",", ".")
    ELSE RemoveAll(cleanValue, ",")

\* cleanValue as it stands when it is handed to parseFloat
NormalizeAmount(rawValue) ==
  LET cleanValue == StripNonNumeric(rawValue)
  IN  IF Includes(cleanValue, <<",">>) /\ Includes(cleanValue, <<".">>)
        THEN BothSeparators(cleanValue)
      ELSE IF Includes(cleanValue, <<",">>)
        THEN CommaOnly(cleanValue)
      ELSE cleanValue

\* const amount = parseFloat(cleanValue) || 0
ParseAmount(rawValue) == OrZero(ParseFloat(NormalizeAmount(rawValue)))

(***************************************************************************)
(* Dates.  A Date built from local (year, month, day) numbers is kept as   *)
(* the local calendar day it denotes, or is the Invalid Date.              *)
(***************************************************************************)
HexLetters == <<"a", "b", "c", "d", "e", "f">>

IsHexDigit(c) ==
  IsDigit(c) \/ \E i \in 1..6 : HexLetters[i] = c \/ UpperChar(HexLetters[i]) = c

HexVal(c) ==
  IF IsDigit(c) THEN DigitVal(c)
  ELSE 9 + (CHOOSE i \in 1..6 : HexLetters[i] = c \/ UpperChar(HexLetters[i]) = c)

RECURSIVE HexPrefix(_)
HexPrefix(s) ==
  IF s # <<>> /\ IsHexDigit(s[1]) THEN <<s[1]>> \o HexPrefix(Tail(s)) ELSE <<>>

RECURSIVE HexValue(_)
HexValue(hs) ==
  IF hs = <<>> THEN 0
  ELSE 16 * HexValue(SubSeq(hs, 1, Len(hs) - 1)) + HexVal(hs[Len(hs)])

\* an array element that is not there: reading it yields undefined
Undefined == <<"undefined">>

\* String(x) for a cell x
StringOf(x) ==
  IF x = Undefined THEN <<"u", "n", "d", "e", "f", "i", "n", "e", "d">> ELSE x

\* parseInt(x) without a radix: leading white space skipped, an optional sign,
\* an optional 0x / 0X prefix selecting radix 16, then the longest prefix of
\* digits of the radix; NaN when that prefix is empty
ParseInt(x) ==
  LET t    == TrimStart(StringOf(x))
      sgn  == t # <<>> /\ (t[1] = "-" \/ t[1] = "+")
      neg  == t # <<>> /\ t[1] = "-"
      u    == IF sgn THEN Tail(t) ELSE t
      hex  == Len(u) >= 2 /\ u[1] = "0" /\ (u[2] = "x" \/ u[2] = "X")
      ds   == IF hex THEN HexPrefix(SubSeq(u, 3, Len(u))) ELSE DigitPrefix(u)
      mag  == IF hex THEN HexValue(ds) ELSE DigitsValue(ds)
  IN  IF ds = <<>> THEN NaN ELSE Num(IF neg THEN -mag ELSE mag, 0)

InvalidDate == [valid |-> FALSE, y |-> 0, m |-> 0, d |-> 0]

\* days since 1970-01-01 of the proleptic Gregorian day (y, m, d), m in 1..12
DaysFromCivil(y, m, d) ==
  LET yy  == IF m <= 2 THEN y - 1 ELSE y
      era == yy \div 400
      yoe == yy - era * 400
      mp  == IF m > 2 THEN m - 3 ELSE m + 9
      doy == (153 * mp + 2) \div 5 + d - 1
      doe == yoe * 365 + yoe \div 4 - yoe \div 100 + doy
  IN  era * 146097 + doe - 719468

\* the proleptic Gregorian day that lies z days after 1970-01-01
CivilFromDays(z) ==
  LET zz  == z + 719468
      era == zz \div 146097
      doe == zz - era * 146097
      yoe == (doe - doe \div 1460 + doe \div 36524 - doe \div 146096) \div 365
      doy == doe - (365 * yoe + yoe \div 4 - yoe \div 100)
      mp  == (5 * doy + 2) \div 153
      d   == doy - (153 * mp + 2) \div 5 + 1
      m   == IF mp < 10 THEN mp + 3 ELSE mp - 9
      y   == yoe + era * 400 + (IF m <= 2 THEN 1 ELSE 0)
  IN  [valid |-> TRUE, y |-> y, m |-> m, d |-> d]

\* new Date(year, monthIndex, day) on numbers: Invalid Date when an argument is
\* NaN; a year in 0..99 means 1900 + year; a month index outside 0..11 and a
\* day outside the month carry over into the neighbouring months and years
NewDate(year, monthIndex, day) ==
  IF year.nan \/ monthIndex.nan \/ day.nan THEN InvalidDate
  ELSE LET y0 == IF year.n >= 0 /\ year.n <= 99 THEN 1900 + year.n ELSE year.n
           ym == y0 + monthIndex.n \div 12
           mn == monthIndex.n % 12
       IN  CivilFromDays(DaysFromCivil(ym, mn + 1, 1) + day.n - 1)

\* x - 1 on a number that is an integer or NaN
MinusOne(v) == IF v.nan THEN NaN ELSE Num(v.n - 1, 0)

\* array[i] for a 0-based index i: undefined outside the array
At(array, i) == IF i >= 0 /\ i < Len(array) THEN array[i + 1] ELSE Undefined

\* ParseDate reading the first part as the month and the second as the day
ParseDateMonthFirst(dateStr, dateFormat) ==
  LET sep       == IF dateFormat = "dd.mm.yyyy" THEN "." ELSE "/"
      dateParts == Split(dateStr, sep)
  IN  IF dateFormat \in {"dd.mm.yyyy", "dd/mm/yyyy"}
        THEN NewDate(ParseInt(At(dateParts, 2)),
                     MinusOne(ParseInt(At(dateParts, 0))),
                     ParseInt(At(dateParts, 1)))
        ELSE InvalidDate

\* the date of a row: the date cell split on the separator of the bank's date
\* format, its first three parts read as day, month, year.  Every config of
\* bankConfigs has one of the two formats, so the generic new Date(dateStr)
\* of the last branch is never taken; it is left as the Invalid Date.
ParseDate(dateStr, dateFormat) ==
  LET sep       == IF dateFormat = "dd.mm.yyyy" THEN "." ELSE "/"
      dateParts == Split(dateStr, sep)
  IN  IF dateFormat \in {"dd.mm.yyyy", "dd/mm/yyyy"}
        THEN NewDate(ParseInt(At(dateParts, 2)),
                     MinusOne(ParseInt(At(dateParts, 1))),
                     ParseInt(At(dateParts, 0)))
        ELSE InvalidDate

(***************************************************************************)
(* The bank registry.  Column names are texts; recipientColumn is a        *)
(* regular expression, kept as the literal pieces that its ".*" separate   *)
(* (a pattern without ".*" is one piece); "EUR" stands for the euro sign.  *)
(***************************************************************************)
NkbmOtpConfig ==
  [name              |-> "NKBM/OTP",
   dateColumn        |-> <<"D", "A", "T", "U", "M", " ", "V", "A", "L", "U", "T", "E">>,
   incomeColumn      |-> <<"D", "O", "B", "R", "O">>,
   expenseColumn     |-> <<"B", "R", "E", "M", "E">>,
   descriptionColumn |-> <<"N", "A", "M", "E", "N">>,
   recipientColumn   |-> <<<<"U", "D", "E", "L", "E">>, <<"N", "A", "Z", "I", "V">>>>,
   dateFormat        |-> "dd.mm.yyyy",
   currency          |-> "EUR"]

NlbConfig ==
  [name              |-> "NLB",
   dateColumn        |-> <<"D", "a", "t", "u", "m">>,
   incomeColumn      |-> <<"P", "r", "i", "l", "i", "v", "i">>,
   expenseColumn     |-> <<"O", "d", "l", "i", "v", "i">>,
   descriptionColumn |-> <<"N", "a", "m", "e", "n">>,
   recipientColumn   |-> <<<<"P", "r", "e", "j", "e", "m", "n", "i", "k">>>>,
   dateFormat        |-> "dd.mm.yyyy",
   currency          |-> "EUR"]

IntesaConfig ==
  [name              |-> "Intesa Sanpaolo",
   dateColumn        |-> <<"D", "a", "t", "a">>,
   incomeColumn      |-> <<"A", "c", "c", "r", "e", "d", "i", "t", "i">>,
   expenseColumn     |-> <<"A", "d", "d", "e", "b", "i", "t", "i">>,
   descriptionColumn |-> <<"D", "e", "s", "c", "r", "i", "z", "i", "o", "n", "e">>,
   recipientColumn   |-> <<<<"B", "e", "n", "e", "f", "i", "c", "i", "a", "r", "i", "o">>>>,
   dateFormat        |-> "dd/mm/yyyy",
   currency          |-> "EUR"]

ErsteConfig ==
  [name              |-> "Erste Bank",
   dateColumn        |-> <<"D", "a", "t", "u", "m", " ", "v", "a", "l", "u", "t", "e">>,
   incomeColumn      |-> <<"I", "z", "n", "o", "s">>,
   expenseColumn     |-> <<"I", "z", "n", "o", "s">>,
   descriptionColumn |-> <<"O", "p", "i", "s">>,
   recipientColumn   |-> <<<<"O", "p", "i", "s">>>>,
   dateFormat        |-> "dd.mm.yyyy",
   currency          |-> "RSD"]

Banks == {"nkbm-otp", "nlb", "intesa", "erste"}

bankConfigs ==
  [b \in Banks |->
     CASE b = "nkbm-otp" -> NkbmOtpConfig
       [] b = "nlb"      -> NlbConfig
       [] b = "intesa"   -> IntesaConfig
       [] b = "erste"    -> ErsteConfig]

\* bankConfigs[bank] is undefined for an id that is no key of the registry
HasConfig(bank) == bank \in DOMAIN bankConfigs

(***************************************************************************)
(* Header and column resolution                                            *)
(***************************************************************************)
\* a cell or header that JavaScript takes for false: undefined or ''
Falsy(x) == x = Undefined \/ x = <<>>

\* h && h.toUpperCase().includes(column.toUpperCase())
HeaderMatches(h, column) ==
  ~Falsy(h) /\ Includes(ToUpperCase(h), ToUpperCase(column))

\* whether the pieces occur in h one after the other, from position start on
RECURSIVE PiecesFrom(_, _, _)
PiecesFrom(h, pieces, start) ==
  IF pieces = <<>> THEN TRUE
  ELSE \E i \in start..(Len(h) + 1) :
         /\ OccursAt(h, pieces[1], i)
         /\ PiecesFrom(h, Tail(pieces), i + Len(pieces[1]))

\* h && new RegExp(recipientColumn, 'i').test(h)
RecipientMatches(h, recipientColumn) ==
  ~Falsy(h) /\ PiecesFrom(ToUpperCase(h),
                          [i \in 1..Len(recipientColumn) |->
                             ToUpperCase(recipientColumn[i])], 1)

\* Array.prototype.findIndex, 0-based, -1 when the callback holds of no
\* element; tests[i] is what the callback returns for the i-th element
FindIndex(tests) ==
  IF \E i \in 1..Len(tests) : tests[i]
    THEN (CHOOSE i \in 1..Len(tests) :
            tests[i] /\ \A j \in 1..(i - 1) : ~tests[j]) - 1
    ELSE -1

DateIndex(headers, config) ==
  FindIndex([i \in 1..Len(headers) |-> HeaderMatches(headers[i], config.dateColumn)])

IncomeIndex(headers, config) ==
  FindIndex([i \in 1..Len(headers) |-> HeaderMatches(headers[i], config.incomeColumn)])

ExpenseIndex(headers, config) ==
  FindIndex([i \in 1..Len(headers) |-> HeaderMatches(headers[i], config.expenseColumn)])

PurposeIndex(headers, config) ==
  FindIndex([i \in 1..Len(headers) |-> HeaderMatches(headers[i], config.descriptionColumn)])

RecipientIndex(headers, config) ==
  FindIndex([i \in 1..Len(headers) |-> RecipientMatches(headers[i], config.recipientColumn)])

\* isBankTransactionFile: "true", "false", or "throw" when the selected bank
\* has no config and a header is non-empty (config.dateColumn is then read
\* from undefined, a TypeError)
IsBankTransactionFile(sheets, bank) ==
  IF sheets = <<>> THEN "false"
  ELSE LET headers == sheets[1].headers
       IN  IF ~HasConfig(bank)
             THEN IF \E i \in 1..Len(headers) : ~Falsy(headers[i])
                    THEN "throw" ELSE "false"
           ELSE LET config == bankConfigs[bank]
                    hasDateColumn ==
                      \E i \in 1..Len(headers) :
                         HeaderMatches(headers[i], config.dateColumn)
                    hasIncomeColumn ==
                      \E i \in 1..Len(headers) :
                         HeaderMatches(headers[i], config.incomeColumn)
                    hasExpenseColumn ==
                      \E i \in 1..Len(headers) :
                         HeaderMatches(headers[i], config.expenseColumn)
                IN  IF hasDateColumn /\ (hasIncomeColumn \/ hasExpenseColumn)
                      THEN "true" ELSE "false"

(***************************************************************************)
(* The transaction builder                                                 *)
(***************************************************************************)
Unknown == <<"U", "n", "k", "n", "o", "w", "n">>

\* x || 'Unknown'
OrUnknown(x) == IF Falsy(x) THEN Unknown ELSE x

\* if (rawValue && rawValue !== '0' && rawValue !== '')
PassesRawGuard(rawValue) == rawValue # <<>> /\ rawValue # <<"0">>

Transaction(date, amount, description, recipient, type) ==
  [date |-> date, amount |-> amount, description |-> description,
   recipient |-> recipient, type |-> type]

\* SignedAmountRow storing the signed amount instead of its absolute value
SignedAmountRowKeepsSign(row, incomeIndex, date, description, recipient) ==
  LET rawValue == Trim(StringOf(At(row, incomeIndex)))
      amount   == ParseAmount(rawValue)
  IN  IF PassesRawGuard(rawValue) /\ IsNonZero(amount)
        THEN <<Transaction(date, amount, description, recipient,
                           IF IsPositive(amount) THEN "income" ELSE "expense")>>
        ELSE <<>>

\* SignedAmountRow taking every non-zero amount for income
SignedAmountRowAllIncome(row, incomeIndex, date, description, recipient) ==
  LET rawValue == Trim(StringOf(At(row, incomeIndex)))
      amount   == ParseAmount(rawValue)
  IN  IF PassesRawGuard(rawValue) /\ IsNonZero(amount)
        THEN <<Transaction(date, Abs(amount), description, recipient, "income")>>
        ELSE <<>>

\* the single signed amount column (erste): one transaction for a non-zero
\* amount, income when positive and expense when negative, the amount stored
\* as its absolute value
SignedAmountRow(row, incomeIndex, date, description, recipient) ==
  LET rawValue == Trim(StringOf(At(row, incomeIndex)))
      amount   == ParseAmount(rawValue)
  IN  IF PassesRawGuard(rawValue) /\ IsNonZero(amount)
        THEN <<Transaction(date, Abs(amount), description, recipient,
                           IF IsPositive(amount) THEN "income" ELSE "expense")>>
        ELSE <<>>

\* ColumnRow accepting every non-zero amount, its absolute value stored
ColumnRowNonZero(row, index, date, description, recipient, type) ==
  IF index # -1 /\ ~Falsy(At(row, index))
    THEN LET rawValue == Trim(StringOf(At(row, index)))
             amount   == ParseAmount(rawValue)
         IN  IF PassesRawGuard(rawValue) /\ IsNonZero(amount)
               THEN <<Transaction(date, Abs(amount), description, recipient,
                                  type)>>
               ELSE <<>>
    ELSE <<>>

\* one column of a separate-column bank: a transaction of the column's type
\* for a strictly positive amount
ColumnRow(row, index, date, description, recipient, type) ==
  IF index # -1 /\ ~Falsy(At(row, index))
    THEN LET rawValue == Trim(StringOf(At(row, index)))
             amount   == ParseAmount(rawValue)
         IN  IF PassesRawGuard(rawValue) /\ IsPositive(amount)
               THEN <<Transaction(date, amount, description, recipient, type)>>
               ELSE <<>>
    ELSE <<>>

\* the body of sheet.rows.forEach: the transactions one row pushes
RowTransactions(row, bank, config, dateIndex, incomeIndex, expenseIndex, purposeIndex, recipientIndex) ==
  IF Falsy(At(row, dateIndex)) THEN <<>>
  ELSE LET date        == ParseDate(At(row, dateIndex), config.dateFormat)
           description == OrUnknown(At(row, purposeIndex))
           recipient   == OrUnknown(At(row, recipientIndex))
       IN  IF bank = "erste" /\ incomeIndex # -1
             THEN SignedAmountRow(row, incomeIndex, date, description, recipient)
             ELSE ColumnRow(row, incomeIndex, date, description, recipient,
                            "income")
                  \o ColumnRow(row, expenseIndex, date, description, recipient,
                               "expense")

\* RequiredColumnsMissing asking for the income and the expense column both
RequiredColumnsMissingEither(bank, dateIndex, incomeIndex, expenseIndex) ==
  dateIndex = -1 \/ incomeIndex = -1 \/ expenseIndex = -1

\* the guard on the resolved columns: whether parseBankTransactions returns
\* before it touches this.transactions
RequiredColumnsMissing(bank, dateIndex, incomeIndex, expenseIndex) ==
  IF bank = "erste"
    THEN dateIndex = -1 \/ incomeIndex = -1
    ELSE dateIndex = -1 \/ (incomeIndex = -1 /\ expenseIndex = -1)

RECURSIVE AllRows(_, _, _, _, _, _, _, _)
AllRows(rows, bank, config, dateIndex, incomeIndex, expenseIndex, purposeIndex, recipientIndex) ==
  IF rows = <<>> THEN <<>>
  ELSE RowTransactions(rows[1], bank, config, dateIndex, incomeIndex,
                       expenseIndex, purposeIndex, recipientIndex)
       \o AllRows(Tail(rows), bank, config, dateIndex, incomeIndex,
                  expenseIndex, purposeIndex, recipientIndex)

\* parseBankTransactions on the first sheet of the grid, for a bank that has a
\* config: the value of this.transactions afterwards, given its value before
ParseBankTransactions(sheets, bank, before) ==
  LET sheet          == sheets[1]
      headers        == sheet.headers
      config         == bankConfigs[bank]
      dateIndex      == DateIndex(headers, config)
      incomeIndex    == IncomeIndex(headers, config)
      expenseIndex   == ExpenseIndex(headers, config)
      purposeIndex   == PurposeIndex(headers, config)
      recipientIndex == RecipientIndex(headers, config)
  IN  IF RequiredColumnsMissing(bank, dateIndex, incomeIndex, expenseIndex)
        THEN before
        ELSE AllRows(sheet.rows, bank, config, dateIndex, incomeIndex,
                     expenseIndex, purposeIndex, recipientIndex)

(***************************************************************************)
(* Reading a workbook into the sheet grid (reader.onload, the forEach over *)
(* workbook.SheetNames).  A workbook is a sequence of sheets               *)
(* [sheetName, jsonData], jsonData being the rows of cells that            *)
(* XLSX.utils.sheet_to_json returns for the sheet.                         *)
(***************************************************************************)
DatumValute == <<"D", "a", "t", "u", "m", " ", "v", "a", "l", "u", "t", "e">>
Iznos       == <<"I", "z", "n", "o", "s">>

\* cell && typeof cell === 'string' &&
\*   (cell.includes('Datum valute') || cell.includes('Iznos'))
IsErsteHeaderCell(cell) ==
  ~Falsy(cell) /\ (Includes(cell, DatumValute) \/ Includes(cell, Iznos))

\* HeaderRowIndex matching the two texts whatever their case
HeaderRowIndexAnyCase(jsonData) ==
  FindIndex([i \in 1..Len(jsonData) |->
               \E j \in 1..Len(jsonData[i]) :
                  \/ HeaderMatches(jsonData[i][j], DatumValute)
                  \/ HeaderMatches(jsonData[i][j], Iznos)])

\* the index of the first row holding such a cell, -1 when there is none
HeaderRowIndex(jsonData) ==
  FindIndex([i \in 1..Len(jsonData) |->
               \E j \in 1..Len(jsonData[i]) : IsErsteHeaderCell(jsonData[i][j])])

\* row.map(h => String(h || ''))
HeaderTexts(row) == [j \in 1..Len(row) |-> IF Falsy(row[j]) THEN <<>> ELSE row[j]]

\* the ParsedData pushed for a sheet with at least one row
ParseSheet(sheet, bank) ==
  LET jsonData == sheet.jsonData
      found    == IF bank = "erste" THEN HeaderRowIndex(jsonData) ELSE -1
      at       == IF found # -1 THEN found ELSE 0
  IN  [sheetName |-> sheet.sheetName,
       headers   |-> HeaderTexts(jsonData[at + 1]),
       rows      |-> SubSeq(jsonData, at + 2, Len(jsonData))]

\* the ParsedData the forEach pushes, in order: a sheet without rows is skipped
RECURSIVE ParseWorkbook(_, _)
ParseWorkbook(workbook, bank) ==
  IF workbook = <<>> THEN <<>>
  ELSE (IF Len(workbook[1].jsonData) > 0
          THEN <<ParseSheet(workbook[1], bank)>> ELSE <<>>)
       \o ParseWorkbook(Tail(workbook), bank)

(***************************************************************************)
(* Files.  A file is [name, ext, type, corrupt, workbook]: ext is the       *)
(* lower-cased extension of its name, type its MIME type, corrupt whether   *)
(* XLSX.read throws on its bytes, workbook what XLSX.read returns           *)
(* otherwise.  Sheet names are unique over the files below, so the file a   *)
(* sheet of the grid was read from can be told from the grid.              *)
(***************************************************************************)
File(name, ext, type, corrupt, workbook) ==
  [name |-> name, ext |-> ext, type |-> type, corrupt |-> corrupt,
   workbook |-> workbook]

Sheet(sheetName, jsonData) == [sheetName |-> sheetName, jsonData |-> jsonData]

XlsxType == "application/vnd.openxmlformats-officedocument.spreadsheetml.sheet"

NlbHeader ==
  <<<<"D", "a", "t", "u", "m">>, <<"P", "r", "i", "l", "i", "v", "i">>, <<"O", "d", "l", "i", "v", "i">>, <<"N", "a", "m", "e", "n">>, <<"P", "r", "e", "j", "e", "m", "n", "i", "k">>>>

NkbmHeader ==
  <<<<"D", "A", "T", "U", "M", " ", "V", "A", "L", "U", "T", "E">>, <<"D", "O", "B", "R", "O">>, <<"B", "R", "E", "M", "E">>, <<"N", "A", "M", "E", "N">>, <<"U", "D", "E", "L", "E", "Z", "E", "N", "E", "C", " ", "N", "A", "Z", "I", "V">>>>

IntesaHeader ==
  <<<<"D", "a", "t", "a">>, <<"A", "c", "c", "r", "e", "d", "i", "t", "i">>, <<"A", "d", "d", "e", "b", "i", "t", "i">>, <<"D", "e", "s", "c", "r", "i", "z", "i", "o", "n", "e">>, <<"B", "e", "n", "e", "f", "i", "c", "i", "a", "r", "i", "o">>>>

ErsteHeader ==
  <<<<"D", "a", "t", "u", "m", " ", "v", "a", "l", "u", "t", "e">>, <<"I", "z", "n", "o", "s">>, <<"I", "z", "n", "o", "s">>, <<"O", "p", "i", "s">>, <<"O", "p", "i", "s">>>>

\* an nlb statement exported as CSV: one income row, one expense row
NlbCsv ==
  File("nlb.csv", ".csv", "text/csv", FALSE,
       <<Sheet("nlb1",
               <<NlbHeader,
                 <<<<"0", "5", ".", "0", "3", ".", "2", "0", "2", "4">>, <<"1", ".", "2", "3", "4", ",", "5", "6">>, <<>>, <<"P", "l", "a", "c", "a">>, <<"F", "i", "r", "m", "a">>>>,
                 <<<<"0", "6", ".", "0", "3", ".", "2", "0", "2", "4">>, <<>>, <<"4", "5", ",", "0", "0">>, <<"S", "p", "a", "r">>>>>>)>>)

\* a workbook of three sheets: the first has no rows, the second is an
\* nkbm-otp statement, the third an nlb statement
MultiXlsx ==
  File("multi.xlsx", ".xlsx", XlsxType, FALSE,
       <<Sheet("multi1", <<>>),
         Sheet("multi2",
               <<NkbmHeader,
                 <<<<"0", "7", ".", "0", "3", ".", "2", "0", "2", "4">>, <<"1", "0", "0">>, <<"1", "2", ".", "5", "0">>, <<"P", "e", "t", "r", "o", "l">>, <<"O", "M", "V">>>>>>),
         Sheet("multi3",
               <<NlbHeader,
                 <<<<"0", "9", ".", "0", "3", ".", "2", "0", "2", "4">>, <<>>, <<"7", ",", "5">>, <<"M", "a", "r", "k", "e", "t">>, <<"T", "u", "s">>>>>>)>>)

\* an erste statement: a title row, then the header row and two data rows
ErsteXls ==
  File("erste.xls", ".xls", "application/vnd.ms-excel", FALSE,
       <<Sheet("erste1",
               <<<<<<"I", "z", "v", "o", "d">>>>,
                 ErsteHeader,
                 <<<<"0", "5", ".", "0", "3", ".", "2", "0", "2", "4">>, <<"-", "1", "5", "0", "0">>, Undefined, <<"K", "i", "r", "i", "j", "a">>>>,
                 <<<<"0", "6", ".", "0", "3", ".", "2", "0", "2", "4">>, <<"2", ".", "0", "0", "0", ",", "0", "0">>, Undefined, <<"P", "l", "a", "t", "a">>>>>>)>>)

\* an nkbm-otp statement of a period without transactions: the header row only
HeaderCsv ==
  File("header.csv", ".csv", "text/csv", FALSE, <<Sheet("header1", <<NkbmHeader>>)>>)

\* a CSV whose only sheet has no rows
EmptyCsv == File("empty.csv", ".csv", "text/csv", FALSE, <<Sheet("empty1", <<>>)>>)

\* a file XLSX.read cannot read
CorruptXls == File("bad.xls", ".xls", "", TRUE, <<>>)

\* a file that is no spreadsheet
TextFile == File("notes.txt", ".txt", "text/plain", FALSE, <<>>)

Files == {NlbCsv, MultiXlsx, ErsteXls, HeaderCsv, EmptyCsv, CorruptXls, TextFile}

\* before any file has been handed to processFile
NoFile == File("", "", "", FALSE, <<>>)

\* the values the bank selector can hand to handleBankChange: the four banks
\* of the registry and an id the registry does not hold
OtherBankId == "other"
BankIds == Banks \cup {OtherBankId}

validTypes == {XlsxType, "application/vnd.ms-excel", "text/csv"}

validExtensions == {".xlsx", ".xls", ".csv"}

\* isValidFileType: "valid", "invalid", or "ersteNotXls" when it has shown the
\* erste message before returning false
IsValidFileType(file, bank) ==
  IF ~(file.type \in validTypes \/ file.ext \in validExtensions) THEN "invalid"
  ELSE IF bank = "erste"
          /\ ~(file.ext = ".xls" \/ file.type = "application/vnd.ms-excel")
    THEN "ersteNotXls"
  ELSE "valid"

(***************************************************************************)
(* Categorization (categorizeTransaction): the first rule whose keyword    *)
(* occurs in the upper-cased description (the recipient, for Education)    *)
(* gives the category; the rules of the two types are apart.               *)
(***************************************************************************)
\* the expense rules, in the order of the source
ExpenseCategory(desc, recipient) ==
  IF Includes(desc, <<"R", "E", "V", "O", "L", "U", "T">>)
       \/ Includes(desc, <<"P", "A", "Y", "P", "A", "L">>)
    THEN "Digital Payments"
  ELSE IF Includes(desc, <<"M", "A", "R", "K", "E", "T">>)
       \/ Includes(desc, <<"T", "R", "G", "O", "V", "I", "N", "A">>)
       \/ Includes(desc, <<"S", "P", "A", "R">>)
       \/ Includes(desc, <<"M", "E", "R", "C", "A", "T", "O", "R">>)
    THEN "Groceries"
  ELSE IF Includes(desc, <<"R", "E", "S", "T", "A", "V", "R", "A", "C", "I", "J", "A">>)
       \/ Includes(desc, <<"G", "O", "S", "T", "I", "N", "S", "T", "V", "O">>)
       \/ Includes(desc, <<"F", "O", "O", "D">>)
    THEN "Restaurants"
  ELSE IF Includes(desc, <<"B", "E", "N", "C", "I", "N">>)
       \/ Includes(desc, <<"P", "E", "T", "R", "O", "L">>)
       \/ Includes(desc, <<"O", "M", "V">>)
    THEN "Gas"
  ELSE IF Includes(desc, <<"T", "E", "L", "E", "K", "O", "M">>)
       \/ Includes(desc, <<"A", "1">>)
       \/ Includes(desc, <<"T", "E", "L", "E", "M", "A", "C", "H">>)
    THEN "Telecom"
  ELSE IF Includes(recipient, <<"U", "N", "I", "V", "E", "R", "Z", "A">>)
    THEN "Education"
  ELSE IF Includes(desc, <<"Z", "A", "V", "A", "R", "O", "V", "A", "N", "J", "E">>)
    THEN "Insurance"
  ELSE IF Includes(desc, <<"N", "A", "J", "E", "M", "N", "I", "N", "A">>)
       \/ Includes(desc, <<"R", "E", "N", "T">>)
    THEN "Rent"
  ELSE "Other Expenses"

\* the income rules, in the order of the source
IncomeCategory(desc) ==
  IF Includes(desc, <<"P", "L", "A", CCaron, "A">>)
       \/ Includes(desc, <<"S", "A", "L", "A", "R", "Y">>)
       \/ Includes(desc, <<"M", "E", "Z", "D", "A">>)
    THEN "Salary"
  ELSE IF Includes(desc, <<"D", "I", "V", "I", "D", "E", "N", "D", "A">>)
       \/ Includes(desc, <<"D", "I", "V", "I", "D", "E", "N", "D">>)
    THEN "Dividends"
  ELSE IF Includes(desc, <<"O", "B", "R", "E", "S", "T", "I">>)
       \/ Includes(desc, <<"I", "N", "T", "E", "R", "E", "S", "T">>)
    THEN "Interest"
  ELSE IF Includes(desc, <<"N", "A", "K", "A", "Z", "I", "L", "O">>)
       \/ Includes(desc, <<"T", "R", "A", "N", "S", "F", "E", "R">>)
    THEN "Transfer"
  ELSE IF Includes(desc, <<"R", "E", "F", "U", "N", "D">>)
       \/ Includes(desc, <<"P", "O", "V", "R", "A", CCaron, "I", "L", "O">>)
    THEN "Refund"
  ELSE IF Includes(desc, <<"F", "R", "E", "E", "L", "A", "N", "C", "E">>)
       \/ Includes(desc, <<"H", "O", "N", "O", "R", "A", "R">>)
    THEN "Freelance"
  ELSE IF Includes(desc, <<"G", "I", "F", "T">>)
       \/ Includes(desc, <<"D", "A", "R", "I", "L", "O">>)
    THEN "Gift"
  ELSE "Other Income"

\* categorizeTransaction with the expense rules tried for every transaction
CategorizeTransactionAnyType(transaction) ==
  LET desc      == ToUpperCase(transaction.description)
      recipient == ToUpperCase(transaction.recipient)
      expense   == ExpenseCategory(desc, recipient)
  IN  IF transaction.type = "expense" \/ expense # "Other Expenses"
        THEN expense
        ELSE IncomeCategory(desc)

CategorizeTransaction(transaction) ==
  LET desc      == ToUpperCase(transaction.description)
      recipient == ToUpperCase(transaction.recipient)
  IN  IF transaction.type = "expense"
        THEN ExpenseCategory(desc, recipient)
        ELSE IncomeCategory(desc)

(***************************************************************************)
(* Recipient names (cleanRecipientName).  The two replace calls have no g  *)
(* flag: each removes one match, the first at the start of the text and    *)
(* the second at its end.                                                  *)
(***************************************************************************)
\* /^(PODJETJE|D\.O\.O\.|S\.P\.|K\.D\.)\s*/i, the alternatives in their order
LeadingTokens ==
  <<<<"P", "O", "D", "J", "E", "T", "J", "E">>, <<"D", ".", "O", ".", "O", ".">>,
    <<"S", ".", "P", ".">>, <<"K", ".", "D", ".">>>>

\* /\s*(D\.O\.O\.|S\.P\.|K\.D\.)$/i
TrailingTokens ==
  <<<<"D", ".", "O", ".", "O", ".">>, <<"S", ".", "P", ".">>, <<"K", ".", "D", ".">>>>

StartsWith(s, token) == OccursAt(s, token, 1)

EndsWith(s, token) == OccursAt(s, token, Len(s) - Len(token) + 1)

\* cleaned.replace(/^(PODJETJE|...)\s*/i, ''): the token the text starts with and
\* the white space after it are removed, once
StripLeading(cleaned) ==
  IF \E i \in 1..Len(LeadingTokens) : StartsWith(cleaned, LeadingTokens[i])
    THEN LET token == LeadingTokens[CHOOSE i \in 1..Len(LeadingTokens) :
                                      StartsWith(cleaned, LeadingTokens[i])]
         IN  TrimStart(SubSeq(cleaned, Len(token) + 1, Len(cleaned)))
    ELSE cleaned

\* cleaned.replace(/\s*(D\.O\.O\.|...)$/i, ''): the token the text ends with and
\* the white space before it are removed, once
StripTrailing(cleaned) ==
  IF \E i \in 1..Len(TrailingTokens) : EndsWith(cleaned, TrailingTokens[i])
    THEN LET token == TrailingTokens[CHOOSE i \in 1..Len(TrailingTokens) :
                                       EndsWith(cleaned, TrailingTokens[i])]
         IN  TrimEnd(SubSeq(cleaned, 1, Len(cleaned) - Len(token)))
    ELSE cleaned

\* cleaned.replace(/\s+/g, ' ')
RECURSIVE CollapseSpaces(_)
CollapseSpaces(s) ==
  IF s = <<>> THEN <<>>
  ELSE IF IsSpace(s[1])
    THEN <<" ">> \o CollapseSpaces(TrimStart(s))
    ELSE <<s[1]>> \o CollapseSpaces(Tail(s))

\* the longest name that is displayed whole, and what is kept of a longer one
MaxNameLength == 25
KeptNameLength == 22

Ellipsis == <<".", ".", ".">>

\* cleaned.substring(0, 22) + '...' when cleaned.length > 25
LimitLength(cleaned) ==
  IF Len(cleaned) > MaxNameLength
    THEN SubSeq(cleaned, 1, KeptNameLength) \o Ellipsis
    ELSE cleaned

CleanRecipientName(name) ==
  IF Falsy(name) \/ Trim(name) = <<>> THEN Unknown
  ELSE LET cleaned == LimitLength(Trim(CollapseSpaces(
                        StripTrailing(StripLeading(ToUpperCase(Trim(name)))))))
       IN  IF cleaned = <<>> THEN Unknown ELSE cleaned

(***************************************************************************)
(* The aggregators (getCategoryData, getTopRecipients, getDailyData).  A   *)
(* JavaScript object or Map filled by a forEach is kept as the sequence of *)
(* its entries in insertion order, which is the order Array.from and the   *)
(* iteration over the keys give.  Sums of amounts are kept exactly, as the *)
(* decimals they are; the rounding of the doubles is left out.             *)
(***************************************************************************)
RECURSIVE Pow10(_)
Pow10(k) == IF k = 0 THEN 1 ELSE 10 * Pow10(k - 1)

\* a + b on numbers that are not NaN
Add(a, b) ==
  LET k == IF a.k > b.k THEN a.k ELSE b.k
  IN  Num(a.n * Pow10(k - a.k) + b.n * Pow10(k - b.k), k)

\* a - b on numbers that are not NaN
Minus(a, b) == Add(a, [b EXCEPT !.n = -b.n])

\* String(n) of a natural number
RECURSIVE NumberText(_)
NumberText(n) ==
  IF n < 10 THEN <<Digits[n + 1]>> ELSE NumberText(n \div 10) \o <<Digits[(n % 10) + 1]>>

\* the decimal text of n, padded with zeros at the left to width characters
RECURSIVE PadStart(_, _)
PadStart(text, width) ==
  IF Len(text) >= width THEN text ELSE PadStart(<<"0">> \o text, width)

\* t.date.toISOString().split('T')[0] of a valid Date of a year in 0..9999.
\* The Date is the local midnight of its day; toISOString gives the UTC day,
\* which is the day before where local time is ahead of UTC (the offset
\* getTimezoneOffset() gives, in minutes, is negative there).
DateKey(date, timezoneOffset) ==
  LET utc == CivilFromDays(DaysFromCivil(date.y, date.m, date.d)
                           - (IF timezoneOffset < 0 THEN 1 ELSE 0))
  IN  PadStart(NumberText(utc.y), 4) \o <<"-">> \o PadStart(NumberText(utc.m), 2)
        \o <<"-">> \o PadStart(NumberText(utc.d), 2)

\* the characters of a date key in the order the collation gives them
KeyCharacters == <<"-">> \o Digits

\* a.localeCompare(b) on date keys: negative, zero or positive
LocaleCompare(a, b) ==
  LET Rank(c) == CHOOSE r \in 1..Len(KeyCharacters) : KeyCharacters[r] = c
      differ  == {i \in 1..Len(a) : i > Len(b) \/ a[i] # b[i]}
  IN  IF differ = {}
        THEN (IF Len(a) < Len(b) THEN -1 ELSE 0)
        ELSE LET i == CHOOSE i \in differ : \A j \in differ : i <= j
             IN  IF i > Len(b) THEN 1
                 ELSE IF Rank(a[i]) < Rank(b[i]) THEN -1 ELSE 1

\* Array.prototype.sort, which is stable: items[i] comes before items[j] when
\* the comparator is negative on them, or is zero and i < j.  compared[i][j]
\* is the sign of what the comparator returns for (items[i], items[j]).
Sort(items, compared) ==
  LET Before(i, j) == compared[i][j] < 0 \/ (compared[i][j] = 0 /\ i < j)
      Place(i)     == 1 + Cardinality({j \in 1..Len(items) : j # i /\ Before(j, i)})
  IN  [p \in 1..Len(items) |-> items[CHOOSE i \in 1..Len(items) : Place(i) = p]]

\* the 0-based index of the entry of the key in a list of entries, -1 if none
EntryIndex(entries, key) ==
  FindIndex([i \in 1..Len(entries) |-> entries[i].key = key])

\* the forEach of getCategoryData, run on categoryData
RECURSIVE CategoryFold(_, _)
CategoryFold(list, categoryData) ==
  IF list = <<>> THEN categoryData
  ELSE LET t        == list[1]
           category == CategorizeTransaction(t)
           created  == IF EntryIndex(categoryData, category) = -1
                         THEN Append(categoryData,
                                     [key |-> category, amount |-> Zero,
                                      transactions |-> <<>>])
                         ELSE categoryData
           i        == EntryIndex(created, category) + 1
       IN  CategoryFold(Tail(list),
             [created EXCEPT ![i].amount = Add(@, t.amount),
                             ![i].transactions = Append(@, t)])

\* getCategoryData without its last transaction
GetCategoryDataButLast(list) ==
  CategoryFold(SubSeq(list, 1, Len(list) - 1), <<>>)

GetCategoryData(list) == CategoryFold(list, <<>>)

\* the forEach of getDailyData, run on dailyMap
RECURSIVE DailyFold(_, _, _)
DailyFold(list, timezoneOffset, dailyMap) ==
  IF list = <<>> THEN dailyMap
  ELSE LET t       == list[1]
           dateKey == DateKey(t.date, timezoneOffset)
           i       == EntryIndex(dailyMap, dateKey) + 1
       IN  DailyFold(Tail(list), timezoneOffset,
             IF i > 0
               THEN [dailyMap EXCEPT ![i].amount = Add(@, t.amount),
                                     ![i].count = @ + 1,
                                     ![i].transactions = Append(@, t)]
               ELSE Append(dailyMap,
                           [key |-> dateKey, date |-> dateKey, amount |-> t.amount,
                            count |-> 1, transactions |-> <<t>>]))

\* getDailyData without the sort
GetDailyDataUnsorted(list, timezoneOffset) ==
  DailyFold(list, timezoneOffset, <<>>)

GetDailyData(list, timezoneOffset) ==
  LET days == DailyFold(list, timezoneOffset, <<>>)
  IN  Sort(days, [i \in 1..Len(days) |-> [j \in 1..Len(days) |->
                    LocaleCompare(days[i].date, days[j].date)]])

\* the forEach of getTopRecipients, run on recipientMap
RECURSIVE RecipientFold(_, _)
RecipientFold(list, recipientMap) ==
  IF list = <<>> THEN recipientMap
  ELSE LET t         == list[1]
           cleanName == CleanRecipientName(t.recipient)
           i         == EntryIndex(recipientMap, cleanName) + 1
       IN  RecipientFold(Tail(list),
             IF cleanName = Unknown \/ Len(cleanName) < 3 THEN recipientMap
             ELSE IF i > 0
               THEN [recipientMap EXCEPT ![i].amount = Add(@, t.amount),
                                         ![i].count = @ + 1]
               ELSE Append(recipientMap,
                           [key |-> cleanName, name |-> cleanName,
                            amount |-> t.amount, count |-> 1]))

\* recipients kept by getTopRecipients, and the bonus of one transaction
TopCount == 10
FrequencyBonus == 10

\* a.amount + (a.count * 10)
Score(r) == Add(r.amount, Num(r.count * FrequencyBonus, 0))

\* `${r.name} (${r.count}x)`
RecipientLabel(r) ==
  r.name \o <<" ", "(">> \o NumberText(r.count) \o <<"x", ")">>

\* the MonthlySpending built of the recipients, a label written again keeping
\* its place and taking the later amount
RECURSIVE Spending(_, _)
Spending(recipients, result) ==
  IF recipients = <<>> THEN result
  ELSE LET r == recipients[1]
           i == EntryIndex(result, RecipientLabel(r)) + 1
       IN  Spending(Tail(recipients),
             IF i > 0 THEN [result EXCEPT ![i].amount = r.amount]
             ELSE Append(result, [key |-> RecipientLabel(r), amount |-> r.amount]))

\* getTopRecipients with the recipients ranked by amount alone
GetTopRecipientsByAmount(list) ==
  LET all == RecipientFold(list, <<>>)
      sorted == Sort(all, [i \in 1..Len(all) |-> [j \in 1..Len(all) |->
                  Minus(all[j].amount, all[i].amount).n]])
  IN  Spending(SubSeq(sorted, 1, IF Len(sorted) < TopCount THEN Len(sorted)
                                 ELSE TopCount), <<>>)

GetTopRecipients(list) ==
  LET all == RecipientFold(list, <<>>)
      \* scoreB - scoreA
      sorted == Sort(all, [i \in 1..Len(all) |-> [j \in 1..Len(all) |->
                  Minus(Score(all[j]), Score(all[i])).n]])
  IN  Spending(SubSeq(sorted, 1, IF Len(sorted) < TopCount THEN Len(sorted)
                                 ELSE TopCount), <<>>)

(***************************************************************************)
(* The charts (setupMonthSelector, updateCharts, updateTotals).  Of the    *)
(* charts the model keeps the options and the value of the month select,   *)
(* the two mode fields, the four data fields and the two totals written    *)
(* to the page; a month key is the text of the option value.               *)
(***************************************************************************)
NaNText == <<"N", "a", "N">>

\* `${t.date.getFullYear()}-${String(t.date.getMonth() + 1).padStart(2, '0')}`
MonthKey(date) ==
  IF date.valid
    THEN NumberText(date.y) \o <<"-">> \o PadStart(NumberText(date.m), 2)
    ELSE NaNText \o <<"-">> \o NaNText

\* the characters of a month key in the order of their code units
CodeUnits == <<"-">> \o Digits \o <<"N", "a">>

\* the comparison Array.prototype.sort makes without a comparator: by code
\* units; negative, zero or positive
CompareCodeUnits(a, b) ==
  LET Rank(c) == CHOOSE r \in 1..Len(CodeUnits) : CodeUnits[r] = c
      differ  == {i \in 1..Len(a) : i > Len(b) \/ a[i] # b[i]}
  IN  IF differ = {}
        THEN (IF Len(a) < Len(b) THEN -1 ELSE 0)
        ELSE LET i == CHOOSE i \in differ : \A j \in differ : i <= j
             IN  IF i > Len(b) THEN 1
                 ELSE IF Rank(a[i]) < Rank(b[i]) THEN -1 ELSE 1

\* the keys a Set holds, in insertion order, after the forEach that adds the
\* month key of every transaction
RECURSIVE MonthsOf(_, _)
MonthsOf(list, months) ==
  IF list = <<>> THEN months
  ELSE MonthsOf(Tail(list),
                IF \E i \in 1..Len(months) : months[i] = MonthKey(list[1].date)
                  THEN months ELSE Append(months, MonthKey(list[1].date)))

\* Array.from(months).sort().reverse()
SortedMonths(list) ==
  LET months == MonthsOf(list, <<>>)
      sorted == Sort(months, [i \in 1..Len(months) |-> [j \in 1..Len(months) |->
                               CompareCodeUnits(months[i], months[j])]])
  IN  [i \in 1..Len(sorted) |-> sorted[Len(sorted) + 1 - i]]

\* Number(text) for a part of a month key: NaN unless the text is digits
NumberOf(text) ==
  IF \A i \in 1..Len(text) : IsDigit(text[i])
    THEN Num(DigitsValue(text), 0) ELSE NaN

\* the filter of updateCharts: the transactions of the type whose local year
\* and month are the two numbers of the selected month
Monthly(list, selectedMonth, type) ==
  LET parts == Split(selectedMonth, "-")
      year  == NumberOf(parts[1])
      month == IF Len(parts) > 1 THEN NumberOf(parts[2]) ELSE NaN
  IN  SelectSeq(list, LAMBDA t :
        /\ t.date.valid /\ ~year.nan /\ ~month.nan
        /\ t.date.y = year.n /\ t.date.m = month.n
        /\ t.type = type)

\* Object.values(data).reduce((sum, amount) => sum + amount, 0), and the
\* reduce of dailyDataToSpending
RECURSIVE Total(_)
Total(entries) ==
  IF entries = <<>> THEN Zero ELSE Add(Total(SubSeq(entries, 1, Len(entries) - 1)),
                                       entries[Len(entries)].amount)

(***************************************************************************)
(* The state of an ExcelParser.  Of the page, the model keeps what is on   *)
(* display: whether the table, the sheet tabs and the charts are shown,    *)
(* and the error message shown.  The table, when shown, holds the sheet    *)
(* parsedSheets[currentSheetIndex] (displaySheet renders it whenever it    *)
(* shows the table, and the grid changes only together with hideTable or   *)
(* displaySheet(0)); the tabs, when shown, are those of parsedSheets.      *)
(***************************************************************************)
VARIABLES
  currentBank,        \* this.currentBank
  parsedSheets,       \* this.parsedSheets, the sheet grid
  transactions,       \* this.transactions
  currentSheetIndex,  \* this.currentSheetIndex
  tableVisible,       \* tableContainer is displayed
  tabsVisible,        \* sheetTabs is displayed
  chartsVisible,      \* chartsContainer is displayed
  errorMessage,       \* the message errorMessage displays, "" when it is hidden
  pending,            \* bag of the files whose FileReader has not completed
  lastFile,           \* history: the file handed to processFile last
  amt,                \* the amount parser applied to one cell on its own
  cat,                \* categorizeTransaction applied to one transaction on its own
  rcp,                \* cleanRecipientName applied to one name on its own
  agg,                \* the aggregators applied to one transaction list on their own
  charts,             \* the month select, the mode and data fields, the totals
  reads               \* history: for every read in flight, whether the bank
                      \* was changed since it was started

vars == <<currentBank, parsedSheets, transactions, currentSheetIndex,
          tableVisible, tabsVisible, chartsVisible, errorMessage, pending,
          lastFile, amt, cat, rcp, agg, charts, reads>>

NoAmount == [raw |-> <<>>, done |-> FALSE, cleanValue |-> <<>>, amount |-> Zero]

NoCategory ==
  [description |-> <<>>, recipient |-> <<>>, type |-> "expense", done |-> FALSE,
   category |-> ""]

NoName == [name |-> <<>>, done |-> FALSE, cleaned |-> <<>>]

NoReport ==
  [transactions |-> <<>>, timezoneOffset |-> 0, runs |-> 0,
   categoryData |-> <<>>, topRecipients |-> <<>>, dailyData |-> <<>>]

\* the total elements before updateTotals has written to them
NotShown == [nan |-> TRUE, n |-> -1, k |-> 0]

\* the chart fields as the constructor leaves them, with a month select that
\* has no option yet
NoCharts ==
  [monthOptions |-> <<>>, selectedMonth |-> <<>>,
   currentView |-> "category", currentChartType |-> "pie",
   currentExpenseData |-> <<>>, currentIncomeData |-> <<>>,
   currentExpenseDailyData |-> <<>>, currentIncomeDailyData |-> <<>>,
   expenseTotal |-> NotShown, incomeTotal |-> NotShown, timezoneOffset |-> 0]

\* a read in flight, as the history keeps it
Read(file, changed) == [file |-> file, changed |-> changed]

\* the reads in flight once the bank has been changed: every one is marked
MarkChanged(bag) ==
  LET Copies(r) == IF r \in DOMAIN bag THEN bag[r] ELSE 0
  IN  [m \in {[r EXCEPT !.changed = TRUE] : r \in DOMAIN bag} |->
         Copies(m) + Copies([m EXCEPT !.changed = FALSE])]

\* the fields as the constructor leaves them; the containers start hidden
InitApp ==
  /\ currentBank = "nkbm-otp"
  /\ parsedSheets = <<>>
  /\ transactions = <<>>
  /\ currentSheetIndex = 0
  /\ tableVisible = FALSE
  /\ tabsVisible = FALSE
  /\ chartsVisible = FALSE
  /\ errorMessage = ""
  /\ pending = EmptyBag
  /\ lastFile = NoFile
  /\ charts = NoCharts
  /\ reads = EmptyBag

\* updateCharts on the controls c: nothing without a selected month; otherwise
\* the data of the active mode is computed from the transactions of the month
\* and the totals are written from it
UpdateCharts(c, list) ==
  IF c.selectedMonth = <<>> THEN charts' = c
  ELSE \E monthly \in {[type \in {"expense", "income"} |->
                          Monthly(list, c.selectedMonth, type)]} :
         IF c.currentChartType = "pie" /\ c.currentView = "category"
           THEN \E data \in {[type \in {"expense", "income"} |->
                                GetCategoryData(monthly[type])]} :
                  charts' = [c EXCEPT !.currentExpenseData = data["expense"],
                                      !.currentIncomeData = data["income"],
                                      !.expenseTotal = Total(data["expense"]),
                                      !.incomeTotal = Total(data["income"])]
         ELSE IF c.currentChartType = "pie"
           THEN \E data \in {[type \in {"expense", "income"} |->
                                GetTopRecipients(monthly[type])]} :
                  charts' = [c EXCEPT !.expenseTotal = Total(data["expense"]),
                                      !.incomeTotal = Total(data["income"])]
         ELSE \E data \in {[type \in {"expense", "income"} |->
                              GetDailyData(monthly[type], c.timezoneOffset)]} :
                charts' = [c EXCEPT !.currentExpenseDailyData = data["expense"],
                                    !.currentIncomeDailyData = data["income"],
                                    !.expenseTotal = Total(data["expense"]),
                                    !.incomeTotal = Total(data["income"])]

\* setupMonthSelector: nothing for an empty transaction set; otherwise the
\* options are rebuilt, the select takes its first option and the charts are
\* updated
SetupMonthSelector(c, list) ==
  IF list = <<>> THEN charts' = c
  ELSE \E months \in {SortedMonths(list)} :
         UpdateCharts([c EXCEPT !.monthOptions = months,
                                !.selectedMonth = months[1]], list)

Init == InitApp /\ amt = NoAmount /\ cat = NoCategory /\ rcp = NoName /\ agg = NoReport

\* processFile(file): the grid and the transactions are emptied, the file type
\* is checked and the read is started; it completes later (ReaderOnload or
\* ReaderOnerror).  With a selected bank that has no config, the message for
\* an invalid file reads bankConfigs[currentBank].name of undefined: the
\* TypeError leaves processFile before showError is called.
ProcessFile(file) ==
  LET valid == IsValidFileType(file, currentBank)
  IN  /\ BagCardinality(pending) < MaxPending \/ valid # "valid"
      /\ parsedSheets' = <<>>
      /\ transactions' = <<>>
      /\ currentSheetIndex' = 0
      /\ tableVisible' = FALSE
      /\ tabsVisible' = FALSE
      /\ chartsVisible' = FALSE
      /\ lastFile' = file
      /\ errorMessage' = IF valid = "valid" \/ ~HasConfig(currentBank) THEN ""
                         ELSE "invalidFileType"
      /\ pending' = IF valid = "valid" THEN pending (+) SetToBag({file})
                    ELSE pending
      /\ reads' = IF valid = "valid"
                    THEN reads (+) SetToBag({Read(file, FALSE)})
                    ELSE reads
      /\ UNCHANGED <<currentBank, amt, cat, rcp, agg, charts>>

\* what reader.onload leaves in the fields it writes, when the read of file
\* completes in the state given by the other arguments
Onload(file, bank, sheetsBefore, transactionsBefore, sheetIndexBefore, tableBefore, tabsBefore, chartsBefore, errorBefore) ==
  LET sheets == sheetsBefore \o ParseWorkbook(file.workbook, bank)
      isBank == IsBankTransactionFile(sheets, bank)
      before == [parsedSheets      |-> sheetsBefore,
                 transactions      |-> transactionsBefore,
                 currentSheetIndex |-> sheetIndexBefore,
                 tableVisible      |-> tableBefore,
                 tabsVisible       |-> tabsBefore,
                 chartsVisible     |-> chartsBefore,
                 errorMessage      |-> errorBefore,
                 qualified         |-> FALSE]
  IN  IF file.corrupt
        THEN \* XLSX.read throws: the catch shows the message
             [before EXCEPT !.errorMessage = "errorParsingFile"]
      ELSE IF sheets = <<>>
        THEN [before EXCEPT !.errorMessage = "noDataFound"]
      ELSE [parsedSheets      |-> sheets,
            \* isBankTransactionFile, parseBankTransactions
            transactions      |->
              IF isBank = "true"
                THEN ParseBankTransactions(sheets, bank, transactionsBefore)
                ELSE transactionsBefore,
            \* displaySheet(0)
            currentSheetIndex |-> 0,
            tableVisible      |-> TRUE,
            \* createSheetTabs
            tabsVisible       |-> Len(sheets) > 1,
            \* showCharts
            chartsVisible     |-> chartsBefore \/ isBank = "true",
            \* the catch, when isBankTransactionFile throws
            errorMessage      |->
              IF isBank = "throw" THEN "errorParsingFile" ELSE errorBefore,
            \* whether parseBankTransactions and setupMonthSelector are run
            qualified         |-> isBank = "true"]

\* reader.onload of a read in flight
ReaderOnload(file) ==
  /\ BagIn(file, pending)
  /\ pending' = pending (-) SetToBag({file})
  /\ \E after \in {Onload(file, currentBank, parsedSheets, transactions,
                          currentSheetIndex, tableVisible, tabsVisible,
                          chartsVisible, errorMessage)} :
       /\ parsedSheets' = after.parsedSheets
       /\ transactions' = after.transactions
       /\ currentSheetIndex' = after.currentSheetIndex
       /\ tableVisible' = after.tableVisible
       /\ tabsVisible' = after.tabsVisible
       /\ chartsVisible' = after.chartsVisible
       /\ errorMessage' = after.errorMessage
       /\ IF after.qualified
            THEN SetupMonthSelector(charts, after.transactions)
            ELSE charts' = charts
  /\ \E read \in BagToSet(reads) :
       read.file = file /\ reads' = reads (-) SetToBag({read})
  /\ UNCHANGED <<currentBank, lastFile, amt, cat, rcp, agg>>

\* reader.onerror of a read in flight
ReaderOnerror(file) ==
  /\ BagIn(file, pending)
  /\ pending' = pending (-) SetToBag({file})
  /\ errorMessage' = "errorReadingFile"
  /\ \E read \in BagToSet(reads) :
       read.file = file /\ reads' = reads (-) SetToBag({read})
  /\ UNCHANGED <<currentBank, parsedSheets, transactions, currentSheetIndex,
                 tableVisible, tabsVisible, chartsVisible, lastFile, amt,
                 cat, rcp, agg, charts>>

\* a click on the index-th sheet tab: displaySheet(index)
DisplaySheet(index) ==
  /\ tabsVisible
  /\ index < Len(parsedSheets)
  /\ currentSheetIndex' = index
  /\ tableVisible' = TRUE
  /\ UNCHANGED <<currentBank, parsedSheets, transactions, tabsVisible,
                 chartsVisible, errorMessage, pending, lastFile, amt, cat,
                 rcp, agg, charts, reads>>

\* handleBankChange: the selected value becomes the bank, whatever it is; the
\* change event of a select fires when another option has been chosen
HandleBankChange(bank) ==
  /\ bank # currentBank
  /\ currentBank' = bank
  /\ tableVisible' = FALSE
  /\ tabsVisible' = FALSE
  /\ chartsVisible' = FALSE
  /\ errorMessage' = ""
  /\ parsedSheets' = <<>>
  /\ transactions' = <<>>
  /\ reads' = MarkChanged(reads)
  /\ UNCHANGED <<currentSheetIndex, pending, lastFile, amt, cat, rcp, agg,
                 charts>>

\* what the three chart controls leave alone
ChartsOnly ==
  UNCHANGED <<currentBank, parsedSheets, transactions, currentSheetIndex,
              tableVisible, tabsVisible, chartsVisible, errorMessage, pending,
              lastFile, amt, cat, rcp, agg, reads>>

\* the change event of the month select: updateCharts with the month chosen.
\* The select and the four mode buttons are controls of the charts
\* container and are used while it is displayed.
MonthChange(month) ==
  /\ chartsVisible
  /\ UpdateCharts([charts EXCEPT !.selectedMonth = month], transactions)
  /\ ChartsOnly

\* switchChartView(view)
SwitchChartView(view) ==
  /\ chartsVisible
  /\ UpdateCharts([charts EXCEPT !.currentView = view], transactions)
  /\ ChartsOnly

\* switchChartType(type)
SwitchChartType(type) ==
  /\ chartsVisible
  /\ UpdateCharts([charts EXCEPT !.currentChartType = type], transactions)
  /\ ChartsOnly

Next ==
  \/ \E file \in Files : ProcessFile(file)
  \/ \E file \in Files : ReaderOnload(file)
  \/ \E file \in Files : ReaderOnerror(file)
  \/ \E index \in 0..(Len(parsedSheets) - 1) : DisplaySheet(index)
  \/ \E bank \in BankIds : HandleBankChange(bank)

Spec == Init /\ [][Next]_vars

(***************************************************************************)
(* The amount parser on its own: one cell is drawn, and the steps the      *)
(* builder applies to an amount cell are applied to it.                    *)
(***************************************************************************)
AmountAlphabet == {"0", "1", "5", ",", ".", "-", " "}

\* the texts of at most n characters of the alphabet
Texts(alphabet, n) == UNION {[1..k -> alphabet] : k \in 0..n}

AmountExamples ==
  {<<"1", ".", "2", "3", "4", ",", "5", "6">>,
   <<"1", ",", "2", "3", "4", ".", "5", "6">>, <<"4", "5", ",", "0", "0">>,
   <<"4", "5", ",", "0", "0", "0">>, <<"-", "1", "5", "0", "0">>,
   <<"1", "-", "2", "0", "0">>, <<"1", ".", "2", ",", "3", ",", "4">>,
   <<"1", ",", "2", ".", "3", ".", "4">>,
   <<"-", "1", ".", "2", "3", "4", ",", "5", "6">>,
   <<"E", "U", "R", " ", "1", "2", ",", "5">>,
   <<"1", " ", "2", "3", "4", ",", "5">>,
   <<"1", "2", ",", "3", "4", "5", ".", "6">>, <<"0", ",", "0", "0">>,
   <<"1", ",", "2", ",", "3">>}

AmountCells == Texts(AmountAlphabet, MaxCellLen) \cup AmountExamples

InitAmount ==
  /\ InitApp
  /\ amt \in {[NoAmount EXCEPT !.raw = cell] : cell \in AmountCells}
  /\ cat = NoCategory /\ rcp = NoName /\ agg = NoReport

\* String(cell).trim(), the removal of the other characters, the choice of the
\* decimal separator, parseFloat(cleanValue) || 0
ApplyAmount ==
  /\ ~amt.done
  /\ amt' = [raw        |-> amt.raw,
             done       |-> TRUE,
             cleanValue |-> NormalizeAmount(Trim(amt.raw)),
             amount     |-> ParseAmount(Trim(amt.raw))]
  /\ UNCHANGED <<currentBank, parsedSheets, transactions, currentSheetIndex,
                 tableVisible, tabsVisible, chartsVisible, errorMessage,
                 pending, lastFile, cat, rcp, agg, charts, reads>>

NextAmount == ApplyAmount

SpecAmount == InitAmount /\ [][NextAmount]_vars

(***************************************************************************)
(* The transaction builder on one statement: a bank is selected and the    *)
(* read of a one-sheet statement of that bank is in flight, the sheet      *)
(* holding the bank's header row and one data row drawn from the sets      *)
(* below; the read then completes.                                         *)
(***************************************************************************)
BuildAlphabet == {"0", "5", ",", ".", "-", " "}

HeaderOf(bank) ==
  CASE bank = "nkbm-otp" -> NkbmHeader
    [] bank = "nlb"      -> NlbHeader
    [] bank = "intesa"   -> IntesaHeader
    [] bank = "erste"    -> ErsteHeader

\* parts joined by a separator
RECURSIVE Join(_, _)
Join(parts, sep) ==
  IF Len(parts) = 0 THEN <<>>
  ELSE IF Len(parts) = 1 THEN parts[1]
  ELSE parts[1] \o <<sep>> \o Join(Tail(parts), sep)

DayParts ==
  {<<"0", "5">>, <<"2", "9">>, <<"3", "1">>, <<"3", "2">>, <<"0">>, <<>>,
   <<"x">>, <<"5", "x">>}

MonthParts ==
  {<<"0", "3">>, <<"0", "2">>, <<"1", "3">>, <<"0">>, <<>>, <<"x">>}

YearParts ==
  {<<"2", "0", "2", "4">>, <<"2", "0", "2", "3">>, <<"2", "4">>, <<>>,
   <<"x">>}

\* date cells of one to four parts, split by '.' or by '/'
DateCells ==
  UNION {{d, Join(<<d, m>>, sep), Join(<<d, m, y>>, sep),
          Join(<<d, m, y, <<"1">>>>, sep)} :
           <<d, m, y, sep>> \in
             DayParts \X MonthParts \X YearParts \X {".", "/"}}
  \cup {Undefined}

\* a well-formed date cell of each format
DottedDate == <<"0", "5", ".", "0", "3", ".", "2", "0", "2", "4">>
SlashedDate == <<"0", "5", "/", "0", "3", "/", "2", "0", "2", "4">>

WideAmounts == Texts(BuildAlphabet, MaxAmountLen) \cup AmountExamples

SmallAmounts == {Undefined, <<>>, <<"5">>, <<"-", "5">>}

\* the data rows drawn: every date cell with a few amounts; the two
\* well-formed dates with every amount in one column and a few in the other;
\* rows whose description and recipient cells are empty or not there
BuildRows ==
  {<<date, <<"5">>, expense, <<"a">>, <<"b">>>> :
     <<date, expense>> \in DateCells \X {<<>>, <<"5">>}}
  \cup
  {<<date, income, expense, <<"a">>, <<"b">>>> :
     <<date, income, expense>> \in
       {DottedDate, SlashedDate} \X WideAmounts \X SmallAmounts}
  \cup
  {<<date, income, expense, <<"a">>, <<"b">>>> :
     <<date, income, expense>> \in
       {DottedDate, SlashedDate} \X SmallAmounts \X WideAmounts}
  \cup
  {<<date, <<"5">>, <<"5">>, <<>>, Undefined>> : date \in {DottedDate, SlashedDate}}
  \cup
  {<<date, <<"-", "5">>, <<"5">>>> : date \in {DottedDate, SlashedDate}}

Statement(bank, row) ==
  File("statement.xls", ".xls", "application/vnd.ms-excel", FALSE,
       <<Sheet("statement1", <<HeaderOf(bank), row>>)>>)

InitBuild ==
  /\ currentBank \in Banks
  /\ lastFile \in {Statement(currentBank, row) : row \in BuildRows}
  /\ pending = SetToBag({lastFile})
  /\ reads = SetToBag({Read(lastFile, FALSE)})
  /\ charts = NoCharts
  /\ parsedSheets = <<>>
  /\ transactions = <<>>
  /\ currentSheetIndex = 0
  /\ tableVisible = FALSE
  /\ tabsVisible = FALSE
  /\ chartsVisible = FALSE
  /\ errorMessage = ""
  /\ amt = NoAmount /\ cat = NoCategory /\ rcp = NoName /\ agg = NoReport

NextBuild == \E file \in BagToSet(pending) : ReaderOnload(file)

SpecBuild == InitBuild /\ [][NextBuild]_vars

(***************************************************************************)
(* categorizeTransaction on its own: a description of one word of          *)
(* DescriptionWords and at most MaxMoreWords words of RuleWords, a         *)
(* recipient and a type are drawn, and the transaction is categorized.     *)
(***************************************************************************)
\* a keyword of every rule in some case, and words that hold none or hold one
\* inside
DescriptionWords ==
  {<<"R", "e", "v", "o", "l", "u", "t">>,
   <<"p", "a", "y", "p", "a", "l">>,
   <<"M", "a", "r", "k", "e", "t">>,
   <<"t", "r", "g", "o", "v", "i", "n", "a">>,
   <<"S", "P", "A", "R">>,
   <<"M", "e", "r", "c", "a", "t", "o", "r">>,
   <<"r", "e", "s", "t", "a", "v", "r", "a", "c", "i", "j", "a">>,
   <<"G", "o", "s", "t", "i", "n", "s", "t", "v", "o">>,
   <<"f", "o", "o", "d">>,
   <<"b", "e", "n", "c", "i", "n">>,
   <<"P", "e", "t", "r", "o", "l">>,
   <<"o", "m", "v">>,
   <<"T", "e", "l", "e", "k", "o", "m">>,
   <<"a", "1">>,
   <<"T", "E", "L", "E", "M", "A", "C", "H">>,
   <<"z", "a", "v", "a", "r", "o", "v", "a", "n", "j", "e">>,
   <<"N", "a", "j", "e", "m", "n", "i", "n", "a">>,
   <<"r", "e", "n", "t">>,
   <<"p", "l", "a", cCaron, "a">>,
   <<"S", "a", "l", "a", "r", "y">>,
   <<"m", "e", "z", "d", "a">>,
   <<"D", "i", "v", "i", "d", "e", "n", "d", "a">>,
   <<"d", "i", "v", "i", "d", "e", "n", "d">>,
   <<"o", "b", "r", "e", "s", "t", "i">>,
   <<"I", "n", "t", "e", "r", "e", "s", "t">>,
   <<"n", "a", "k", "a", "z", "i", "l", "o">>,
   <<"T", "R", "A", "N", "S", "F", "E", "R">>,
   <<"r", "e", "f", "u", "n", "d">>,
   <<"P", "o", "v", "r", "a", cCaron, "i", "l", "o">>,
   <<"f", "r", "e", "e", "l", "a", "n", "c", "e">>,
   <<"H", "o", "n", "o", "r", "a", "r">>,
   <<"g", "i", "f", "t">>,
   <<"d", "a", "r", "i", "l", "o">>,
   <<"U", "n", "i", "v", "e", "r", "z", "a">>,
   <<"P", "a", "r", "e", "n", "t">>,
   <<"S", "p", "a", "r", "k", "a", "s", "s", "e">>,
   <<"N", "a", "k", "u", "p">>,
   <<"P", "L", "A", CCaron, "A">>,
   <<"A", " ", "1">>,
   <<"P", "a", "y", "P", "a", "l", " ", "M", "a", "r", "k", "e", "t">>,
   <<>>}

\* one keyword of every rule that reads the description
RuleWords ==
  {<<"p", "a", "y", "p", "a", "l">>,
   <<"m", "a", "r", "k", "e", "t">>,
   <<"f", "o", "o", "d">>,
   <<"o", "m", "v">>,
   <<"t", "e", "l", "e", "m", "a", "c", "h">>,
   <<"z", "a", "v", "a", "r", "o", "v", "a", "n", "j", "e">>,
   <<"r", "e", "n", "t">>,
   <<"s", "a", "l", "a", "r", "y">>,
   <<"d", "i", "v", "i", "d", "e", "n", "d">>,
   <<"o", "b", "r", "e", "s", "t", "i">>,
   <<"t", "r", "a", "n", "s", "f", "e", "r">>,
   <<"r", "e", "f", "u", "n", "d">>,
   <<"h", "o", "n", "o", "r", "a", "r">>,
   <<"g", "i", "f", "t">>}

Descriptions ==
  {Join(<<first>> \o more, " ") :
     first \in DescriptionWords, more \in Texts(RuleWords, MaxMoreWords)}

CategoryRecipients ==
  {Unknown, <<"U", "n", "i", "v", "e", "r", "z", "a", " ", "v", " ", "L", "j", "u", "b", "l", "j", "a", "n", "i">>,
   <<"O", "M", "V">>}

InitCategorize ==
  /\ InitApp
  /\ cat \in {[NoCategory EXCEPT !.description = description,
                                 !.recipient = recipient, !.type = type] :
               description \in Descriptions, recipient \in CategoryRecipients,
               type \in {"expense", "income"}}
  /\ amt = NoAmount /\ rcp = NoName /\ agg = NoReport

ApplyCategorize ==
  /\ ~cat.done
  /\ cat' = [cat EXCEPT !.done = TRUE,
                        !.category = CategorizeTransaction(
                          [description |-> cat.description,
                           recipient |-> cat.recipient, type |-> cat.type])]
  /\ UNCHANGED <<currentBank, parsedSheets, transactions, currentSheetIndex,
                 tableVisible, tabsVisible, chartsVisible, errorMessage,
                 pending, lastFile, amt, rcp, agg, charts, reads>>

NextCategorize == ApplyCategorize

SpecCategorize == InitCategorize /\ [][NextCategorize]_vars

(***************************************************************************)
(* cleanRecipientName on its own: a name of at most MaxNameWords words of  *)
(* NameWords, or one of NameExamples, is drawn and cleaned.                *)
(***************************************************************************)
NameWords ==
  {<<"P", "o", "d", "j", "e", "t", "j", "e">>,
   <<"d", ".", "o", ".", "o", ".">>,
   <<"S", ".", "P", ".">>,
   <<"k", ".", "d", ".">>,
   <<"A", "B", "C">>,
   <<"M", "e", "r", "c", "a", "t", "o", "r">>,
   <<"a", "b">>,
   <<" ", "\t">>}

NameExamples ==
  {<<"P", "o", "d", "j", "e", "t", "j", "e", " ", "A", "B", "C", " ", "d", ".", "o", ".", "o", ".">>,
   <<"P", "O", "D", "J", "E", "T", "J", "E", "A", "B", "C">>,
   <<"U", "n", "k", "n", "o", "w", "n">>,
   <<>>,
   <<" ", " ", " ">>,
   <<"Z", "a", "v", "a", "r", "o", "v", "a", "l", "n", "i", "c", "a", " ", "T", "r", "i", "g", "l", "a", "v", " ", "d", ".", "d", ".", " ", "L", "j", "u", "b", "l", "j", "a", "n", "a">>,
   <<"A", "B", "C", "D", "E", "F", "G", "H", "I", "J", "K", "L", "M", "N", "O", "P", "Q", "R", "S", "T", "U", "V", "W", "X", "Y">>,
   <<"A", "B", "C", "D", "E", "F", "G", "H", "I", "J", "K", "L", "M", "N", "O", "P", "Q", "R", "S", "T", "U", "V", "W", "X", "Y", "Z">>,
   <<"A", "B", "C", "D", "E", "F", "G", "H", "I", "J", "K", "L", "M", "N", "O", "P", "Q", "R", "S", " ", "s", ".", "p", ".", " ", "X", "Y", "Z">>,
   <<"V", "e", "l", "e", "p", "o", "s", "l", "a", "n", "i", "s", "t", "v", "o", " ", "R", "e", "p", "u", "b", "l", "i", "k", "e", " ", "d", ".", "o", ".", "o", ".">>,
   <<"a", "b", "c", " ", " ", "d", "e", "f">>,
   <<"x">>}

RecipientNames ==
  {Join(words, " ") : words \in Texts(NameWords, MaxNameWords)} \cup NameExamples

InitRecipient ==
  /\ InitApp
  /\ rcp \in {[NoName EXCEPT !.name = name] : name \in RecipientNames}
  /\ amt = NoAmount /\ cat = NoCategory /\ agg = NoReport

ApplyCleanRecipientName ==
  /\ ~rcp.done
  /\ rcp' = [rcp EXCEPT !.done = TRUE, !.cleaned = CleanRecipientName(rcp.name)]
  /\ UNCHANGED <<currentBank, parsedSheets, transactions, currentSheetIndex,
                 tableVisible, tabsVisible, chartsVisible, errorMessage,
                 pending, lastFile, amt, cat, agg, charts, reads>>

NextRecipient == ApplyCleanRecipientName

SpecRecipient == InitRecipient /\ [][NextRecipient]_vars

(***************************************************************************)
(* The aggregators on their own: a transaction list is drawn, the          *)
(* transactions of FixedTransactions or none followed by at most           *)
(* MaxMoreTransactions of MoreTransactions, all of one type and of one     *)
(* month as updateCharts passes them, with the offset of the time zone;    *)
(* the three aggregators are then applied to it, MaxRuns times at most.    *)
(***************************************************************************)
March(d) == [valid |-> TRUE, y |-> 2024, m |-> 3, d |-> d]

\* nine transactions of nine recipients
FixedTransactions ==
  <<[date |-> March(12), amount |-> Num(50, 0),
    description |-> <<"M", "a", "r", "k", "e", "t">>,
    recipient |-> <<"M", "e", "r", "c", "a", "t", "o", "r", " ", "d", ".", "o", ".", "o", ".">>, type |-> "expense"],
   [date |-> March(3), amount |-> Num(1205, 1),
    description |-> <<"P", "e", "t", "r", "o", "l">>,
    recipient |-> <<"O", "M", "V">>, type |-> "expense"],
   [date |-> March(12), amount |-> Num(30, 0),
    description |-> <<"T", "e", "l", "e", "m", "a", "c", "h">>,
    recipient |-> <<"T", "e", "l", "e", "m", "a", "c", "h">>, type |-> "expense"],
   [date |-> March(7), amount |-> Num(99, 0),
    description |-> <<"N", "a", "j", "e", "m", "n", "i", "n", "a">>,
    recipient |-> <<"S", "t", "a", "n", "o", "v", "a", "n", "j", "a", " ", "s", ".", "p", ".">>, type |-> "expense"],
   [date |-> March(3), amount |-> Num(45, 0),
    description |-> <<"S", "a", "l", "a", "r", "y">>,
    recipient |-> <<"P", "o", "d", "j", "e", "t", "j", "e", " ", "A", "l", "f", "a">>, type |-> "expense"],
   [date |-> March(21), amount |-> Num(10, 0),
    description |-> <<"N", "a", "k", "u", "p">>,
    recipient |-> <<"S", "p", "a", "r">>, type |-> "expense"],
   [date |-> March(7), amount |-> Num(2575, 2),
    description |-> <<"R", "e", "f", "u", "n", "d">>,
    recipient |-> <<"B", "e", "t", "a">>, type |-> "expense"],
   [date |-> March(1), amount |-> Num(60, 0),
    description |-> <<"G", "i", "f", "t">>,
    recipient |-> <<"G", "a", "m", "a">>, type |-> "expense"],
   [date |-> March(12), amount |-> Num(15, 0),
    description |-> <<"P", "a", "y", "P", "a", "l">>,
    recipient |-> <<"D", "e", "l", "t", "a">>, type |-> "expense"]>>

MoreTransactions ==
  {[date |-> March(5), amount |-> Num(70, 0),
    description |-> <<"N", "a", "k", "u", "p">>,
    recipient |-> <<"E", "p", "s", "i", "l", "o", "n">>, type |-> "expense"],
   [date |-> March(2), amount |-> Num(40, 0),
    description |-> <<"f", "o", "o", "d">>,
    recipient |-> <<"Z", "e", "t", "a", " ", "d", ".", "o", ".", "o", ".">>, type |-> "expense"],
   [date |-> March(12), amount |-> Num(55, 0),
    description |-> <<"M", "a", "r", "k", "e", "t">>,
    recipient |-> <<"U", "n", "k", "n", "o", "w", "n">>, type |-> "expense"],
   [date |-> March(21), amount |-> Num(20, 0),
    description |-> <<"D", "i", "v", "i", "d", "e", "n", "d">>,
    recipient |-> <<"a", "b">>, type |-> "expense"],
   [date |-> March(1), amount |-> Num(5, 1),
    description |-> <<"O", "b", "r", "e", "s", "t", "i">>,
    recipient |-> <<"m", "e", "r", "c", "a", "t", "o", "r">>, type |-> "expense"],
   [date |-> March(3), amount |-> Num(200, 0),
    description |-> <<"R", "e", "n", "t">>,
    recipient |-> <<" ", " ", " ">>, type |-> "expense"]}

TransactionLists ==
  {[i \in 1..Len(fixed \o more) |-> [(fixed \o more)[i] EXCEPT !.type = type]] :
     fixed \in {<<>>, FixedTransactions},
     more \in Texts(MoreTransactions, MaxMoreTransactions),
     type \in {"expense", "income"}}

\* getTimezoneOffset() in Ljubljana in winter, in London and in New York
TimezoneOffsets == {-60, 0, 300}

InitAggregate ==
  /\ InitApp
  /\ agg \in {[NoReport EXCEPT !.transactions = list, !.timezoneOffset = offset] :
               list \in TransactionLists, offset \in TimezoneOffsets}
  /\ amt = NoAmount /\ cat = NoCategory /\ rcp = NoName

\* the aggregators applied with what the run before left in the category data
ApplyAggregatorsOnTop ==
  /\ agg.runs < MaxRuns
  /\ agg' = [agg EXCEPT
               !.runs = @ + 1,
               !.categoryData = CategoryFold(agg.transactions, @),
               !.topRecipients = GetTopRecipients(agg.transactions),
               !.dailyData = GetDailyData(agg.transactions, agg.timezoneOffset)]
  /\ UNCHANGED <<currentBank, parsedSheets, transactions, currentSheetIndex,
                 tableVisible, tabsVisible, chartsVisible, errorMessage,
                 pending, lastFile, amt, cat, rcp, charts, reads>>

\* getCategoryData, getTopRecipients and getDailyData applied to the list: each
\* builds its result anew and leaves the list as it is
ApplyAggregators ==
  /\ agg.runs < MaxRuns
  /\ agg' = [agg EXCEPT
               !.runs = @ + 1,
               !.categoryData = GetCategoryData(agg.transactions),
               !.topRecipients = GetTopRecipients(agg.transactions),
               !.dailyData = GetDailyData(agg.transactions, agg.timezoneOffset)]
  /\ UNCHANGED <<currentBank, parsedSheets, transactions, currentSheetIndex,
                 tableVisible, tabsVisible, chartsVisible, errorMessage,
                 pending, lastFile, amt, cat, rcp, charts, reads>>

NextAggregate == ApplyAggregators

SpecAggregate == InitAggregate /\ [][NextAggregate]_vars

(***************************************************************************)
(* The header discovery on one sheet: a bank is selected and the read of a *)
(* one-sheet file is in flight, the sheet holding at most MaxGridRows rows *)
(* of GridRows; the read then completes.                                   *)
(***************************************************************************)
GridRows ==
  {<<<<"I", "z", "v", "o", "d">>, Undefined>>,
   <<>>,
   <<<<"i", "z", "n", "o", "s">>>>,
   <<<<"D", "A", "T", "U", "M", " ", "V", "A", "L", "U", "T", "E">>, <<"I", "Z", "N", "O", "S">>>>,
   ErsteHeader,
   <<<<"x">>, <<"U", "k", "u", "p", "n", "i", " ", "I", "z", "n", "o", "s">>>>,
   <<<<"0", "5", ".", "0", "3", ".", "2", "0", "2", "4">>, <<"-", "5">>, <<"-", "5">>, <<"a">>, <<"b">>>>}

\* the sheets of one to n rows
Grids(n) == UNION {[1..k -> GridRows] : k \in 1..n}

Export(grid) ==
  File("export.xls", ".xls", "application/vnd.ms-excel", FALSE,
       <<Sheet("export1", grid)>>)

InitHeader ==
  /\ currentBank \in Banks
  /\ lastFile \in {Export(grid) : grid \in Grids(MaxGridRows)}
  /\ pending = SetToBag({lastFile})
  /\ reads = SetToBag({Read(lastFile, FALSE)})
  /\ charts = NoCharts
  /\ parsedSheets = <<>>
  /\ transactions = <<>>
  /\ currentSheetIndex = 0
  /\ tableVisible = FALSE
  /\ tabsVisible = FALSE
  /\ chartsVisible = FALSE
  /\ errorMessage = ""
  /\ amt = NoAmount /\ cat = NoCategory /\ rcp = NoName /\ agg = NoReport

NextHeader == \E file \in BagToSet(pending) : ReaderOnload(file)

SpecHeader == InitHeader /\ [][NextHeader]_vars

(***************************************************************************)
(* Qualification and the column guard on one sheet: a bank is selected and *)
(* the read of a one-sheet file is in flight, its header row being the     *)
(* header of one of the banks with any of its cells left empty, followed   *)
(* by one data row; the read then completes.                               *)
(***************************************************************************)
\* the header rows drawn: the header of a bank with the cells of keep kept
PartOf(headerRow, keep) ==
  [j \in 1..Len(headerRow) |-> IF j \in keep THEN headerRow[j] ELSE <<>>]

GuardHeaders ==
  {PartOf(HeaderOf(bank), keep) : bank \in Banks, keep \in SUBSET (1..5)}

Listing(headerRow) ==
  File("listing.xls", ".xls", "application/vnd.ms-excel", FALSE,
       <<Sheet("listing1",
               <<headerRow, <<DottedDate, <<"5">>, <<"7">>, <<"a">>, <<"b">>>>>>)>>)

InitGuard ==
  /\ currentBank \in Banks
  /\ lastFile \in {Listing(headerRow) : headerRow \in GuardHeaders}
  /\ pending = SetToBag({lastFile})
  /\ reads = SetToBag({Read(lastFile, FALSE)})
  /\ charts = NoCharts
  /\ parsedSheets = <<>>
  /\ transactions = <<>>
  /\ currentSheetIndex = 0
  /\ tableVisible = FALSE
  /\ tabsVisible = FALSE
  /\ chartsVisible = FALSE
  /\ errorMessage = ""
  /\ amt = NoAmount /\ cat = NoCategory /\ rcp = NoName /\ agg = NoReport

NextGuard == \E file \in BagToSet(pending) : ReaderOnload(file)

SpecGuard == InitGuard /\ [][NextGuard]_vars

(***************************************************************************)
(* The chart controls on one statement: the read of an nlb statement of at *)
(* most MaxChartRows rows of ChartRows is in flight, on a host of one of   *)
(* the time-zone offsets; the read completes, and the month select and the *)
(* mode buttons are then used.                                             *)
(***************************************************************************)
ChartRows ==
  {<<<<"0", "5", ".", "0", "3", ".", "2", "0", "2", "4">>, <<>>, <<"4", "5", ",", "0", "0">>, <<"S", "p", "a", "r">>, <<"M", "e", "r", "c", "a", "t", "o", "r">>>>,
   <<<<"0", "6", ".", "0", "3", ".", "2", "0", "2", "4">>, <<>>, <<"2", "0">>, <<"M", "a", "r", "k", "e", "t">>, <<"a", "b">>>>,
   <<<<"0", "7", ".", "0", "4", ".", "2", "0", "2", "4">>, <<>>, <<"7", ",", "5">>, <<"P", "e", "t", "r", "o", "l">>, <<"O", "M", "V">>>>,
   <<<<"0", "5", ".", "0", "3", ".", "2", "0", "2", "4">>, <<"1", "0", "0">>, <<>>, <<"P", "l", "a", "c", "a">>, <<"F", "i", "r", "m", "a">>>>,
   <<<<"0", "8", ".", "0", "3", ".", "2", "0", "2", "4">>, <<"3", "0">>, <<>>, <<"G", "i", "f", "t">>, <<>>>>}

\* the statements of one to n data rows
ChartStatements(n) ==
  {File("charts.csv", ".csv", "text/csv", FALSE,
        <<Sheet("charts1", <<NlbHeader>> \o rows)>>) :
     rows \in UNION {[1..k -> ChartRows] : k \in 1..n}}

InitCharts ==
  /\ currentBank = "nlb"
  /\ lastFile \in ChartStatements(MaxChartRows)
  /\ pending = SetToBag({lastFile})
  /\ reads = SetToBag({Read(lastFile, FALSE)})
  /\ charts \in {[NoCharts EXCEPT !.timezoneOffset = offset] :
                   offset \in TimezoneOffsets}
  /\ parsedSheets = <<>>
  /\ transactions = <<>>
  /\ currentSheetIndex = 0
  /\ tableVisible = FALSE
  /\ tabsVisible = FALSE
  /\ chartsVisible = FALSE
  /\ errorMessage = ""
  /\ amt = NoAmount /\ cat = NoCategory /\ rcp = NoName /\ agg = NoReport

NextCharts ==
  \/ \E file \in BagToSet(pending) : ReaderOnload(file)
  \/ \E i \in 1..Len(charts.monthOptions) : MonthChange(charts.monthOptions[i])
  \/ \E view \in {"category", "recipient"} : SwitchChartView(view)
  \/ \E type \in {"pie", "daily"} : SwitchChartType(type)

SpecCharts == InitCharts /\ [][NextCharts]_vars

(***************************************************************************)
(* Properties of the amount parser (SpecAmount)                            *)
(***************************************************************************)
\* the cleaned text of the drawn cell: what is left of it after the removal
\* of every character that is no digit, ',', '.' or '-'
CleanedText == StripNonNumeric(amt.raw)

\* every occurrence of the character c replaced by d
ReplaceEvery(s, c, d) == [i \in 1..Len(s) |-> IF s[i] = c THEN d ELSE s[i]]

\* the character, ',' or '.', that stands last among the separators of text
LastSeparator(text) ==
  text[CHOOSE i \in 1..Len(text) :
         /\ text[i] \in {",", "."}
         /\ \A j \in (i + 1)..Len(text) : text[j] \notin {",", "."}]

OtherSeparator(c) == IF c = "," THEN "." ELSE ","

\* the decimal text the two-separator rule prescribes: the other separator
\* removed, the last one written as '.'
DecimalByLastSeparator(text) ==
  ReplaceEvery(RemoveAll(text, OtherSeparator(LastSeparator(text))),
               LastSeparator(text), ".")

\* C5: for an amount cell whose cleaned text holds both ',' and '.', the
\* separator occurring last is the decimal separator: no occurrence of the
\* other separator is left in the text that is parsed (when '.' is the other
\* one, the only '.' left is the decimal comma rewritten), and the amount is
\* the value of the decimal text so obtained; "1,234.56" and "1.234,56" both
\* parse to 1234.56.
C5_LastSeparatorIsDecimal ==
  amt.done =>
    /\ (Includes(CleanedText, <<",">>) /\ Includes(CleanedText, <<".">>)) =>
         /\ IF LastSeparator(CleanedText) = "."
              THEN ~Includes(amt.cleanValue, <<",">>)
              ELSE Len(SelectSeq(amt.cleanValue, LAMBDA c : c = ".")) <= 1
         /\ amt.amount = OrZero(ParseFloat(DecimalByLastSeparator(CleanedText)))
    /\ amt.raw = <<"1", ",", "2", "3", "4", ".", "5", "6">> => amt.amount = Num(123456, 2)
    /\ amt.raw = <<"1", ".", "2", "3", "4", ",", "5", "6">> => amt.amount = Num(123456, 2)

\* C5 witness: the cell "1.234,56" has been parsed, to 1234.56
C5_Witness ==
  /\ amt.done
  /\ amt.raw = <<"1", ".", "2", "3", "4", ",", "5", "6">>
  /\ amt.amount = Num(123456, 2)

\* C6: for an amount cell whose cleaned text holds ',' but no '.', the comma
\* is the decimal separator iff the text splits on ',' into exactly two parts
\* the last of which has at most 2 characters, and otherwise every comma is
\* removed; "45,00" parses to 45, "45,000" to 45000.
C6_CommaOnlyHeuristic ==
  amt.done =>
    /\ (Includes(CleanedText, <<",">>) /\ ~Includes(CleanedText, <<".">>)) =>
         LET parts == Split(CleanedText, ",")
         IN  /\ ~Includes(amt.cleanValue, <<",">>)
             /\ IF Len(parts) = 2 /\ Len(parts[2]) <= 2
                  THEN amt.amount =
                         OrZero(ParseFloat(parts[1] \o <<".">> \o parts[2]))
                  ELSE amt.amount = OrZero(ParseFloat(RemoveAll(CleanedText, ",")))
    /\ amt.raw = <<"4", "5", ",", "0", "0">> => amt.amount = Num(45, 0)
    /\ amt.raw = <<"4", "5", ",", "0", "0", "0">> => amt.amount = Num(45000, 0)

\* C6 witness: the cell "45,000" has been parsed, to 45000 and not to 45
C6_Witness ==
  /\ amt.done
  /\ amt.raw = <<"4", "5", ",", "0", "0", "0">>
  /\ amt.amount = Num(45000, 0)

\* the sign the claim keeps: a '-' that is the first character of the cell
LeadingSign(text) == IF text # <<>> /\ text[1] = "-" THEN <<"-">> ELSE <<>>

\* the cleaned text as C18 states it: the leading '-', if any, and the digits,
\* ',' and '.' of the cell
CleanedAsStated(text) ==
  LeadingSign(text) \o SelectSeq(text, LAMBDA c : IsDigit(c) \/ c = "," \/ c = ".")

\* C18 as stated: a '-' is kept only as the first character of the cell, so no
\* '-' stands after the first character of the text that is parsed, and the
\* amount is the value of the digits and separators of the cell with at most a
\* leading sign; "1-200" is read from "1200"; a cleaned text that is empty or
\* not numeric gives 0.
C18_OnlyLeadingMinusKept ==
  amt.done =>
    /\ \A i \in 2..Len(amt.cleanValue) : amt.cleanValue[i] # "-"
    /\ amt.amount = OrZero(ParseFloat(NormalizeAmount(CleanedAsStated(Trim(amt.raw)))))
    /\ amt.raw = <<"1", "-", "2", "0", "0">> => amt.amount = Num(1200, 0)
    /\ ParseFloat(amt.cleanValue).nan => amt.amount = Zero

(***************************************************************************)
(* Properties of the transaction builder (SpecBuild)                       *)
(***************************************************************************)
\* the read of the statement has completed
Loaded == pending = EmptyBag /\ parsedSheets # <<>>

\* the data row of the statement and its cells
InputRow    == lastFile.workbook[1].jsonData[2]
DateCell    == At(InputRow, 0)
IncomeCell  == At(InputRow, 1)
ExpenseCell == At(InputRow, 2)
PurposeCell == At(InputRow, 3)
\* erste names one column, "Opis", for both the description and the recipient
PartnerCell == IF currentBank = "erste" THEN At(InputRow, 3) ELSE At(InputRow, 4)

SeparateColumnBanks == {"nkbm-otp", "nlb", "intesa"}

\* the date the builder reads from the date cell, for the selected bank
RowDate == ParseDate(DateCell, bankConfigs[currentBank].dateFormat)

\* the row has a date cell from which a date is obtained
DateParsable == ~Falsy(DateCell) /\ RowDate.valid

\* the amount an amount cell parses to
CellAmount(cell) == ParseAmount(StringOf(cell))

\* the cell is non-empty and parses to a strictly positive value
PositiveCell(cell) == ~Falsy(cell) /\ IsPositive(CellAmount(cell))

\* C1: every transaction of the transaction set has an amount that is a
\* number and is > 0, whatever the bank and the cells of the row.
C1_AmountsPositive ==
  \A i \in 1..Len(transactions) :
     /\ ~transactions[i].amount.nan
     /\ transactions[i].amount.n > 0

\* C1 witness: on erste a negative amount cell has been read and has given a
\* transaction
C1_Witness ==
  /\ Loaded
  /\ currentBank = "erste"
  /\ IsNonZero(CellAmount(IncomeCell)) /\ ~IsPositive(CellAmount(IncomeCell))
  /\ Len(transactions) = 1

\* C2: on a separate-column bank, a row with a parsable date gives an income
\* transaction iff its income cell is non-empty and parses to a value > 0, and
\* independently an expense transaction iff its expense cell does; the
\* transactions of the row carry the date, description and recipient of the
\* row, the income one first; a negative value gives no transaction.
C2_SeparateColumns ==
  (Loaded /\ currentBank \in SeparateColumnBanks /\ DateParsable) =>
    LET income  == [date |-> RowDate, amount |-> CellAmount(IncomeCell),
                    description |-> OrUnknown(PurposeCell),
                    recipient |-> OrUnknown(PartnerCell), type |-> "income"]
        expense == [income EXCEPT !.amount = CellAmount(ExpenseCell),
                                  !.type = "expense"]
    IN  transactions =
          (IF PositiveCell(IncomeCell) THEN <<income>> ELSE <<>>)
          \o (IF PositiveCell(ExpenseCell) THEN <<expense>> ELSE <<>>)

\* C2 witness: a row with both cells positive has given two transactions
C2_Witness ==
  /\ Loaded
  /\ currentBank \in SeparateColumnBanks
  /\ DateParsable
  /\ PositiveCell(IncomeCell) /\ PositiveCell(ExpenseCell)
  /\ Len(transactions) = 2
  /\ transactions[1].type = "income" /\ transactions[2].type = "expense"

\* C3: on erste, a row with a parsable date whose amount cell parses to a
\* non-zero value v gives exactly one transaction, income when v > 0 and
\* expense when v < 0, of amount |v|; a cell that is empty or parses to 0
\* gives none.  "-1500" gives one expense of 1500.
C3_SignedAmount ==
  (Loaded /\ currentBank = "erste" /\ DateParsable) =>
    LET v == CellAmount(IncomeCell)
    IN  /\ IF v.n = 0 THEN transactions = <<>>
           ELSE transactions =
                  <<[date |-> RowDate,
                     amount |-> Num(IF v.n < 0 THEN -v.n ELSE v.n, v.k),
                     description |-> OrUnknown(PurposeCell),
                     recipient |-> OrUnknown(PartnerCell),
                     type |-> IF v.n > 0 THEN "income" ELSE "expense"]>>
        /\ Falsy(IncomeCell) => transactions = <<>>
        /\ IncomeCell = <<"-", "1", "5", "0", "0">> =>
             /\ Len(transactions) = 1
             /\ transactions[1].type = "expense"
             /\ transactions[1].amount = Num(1500, 0)

\* C3 witness: the cell "-1500" has given one expense of 1500
C3_Witness ==
  /\ Loaded
  /\ currentBank = "erste"
  /\ DateParsable
  /\ IncomeCell = <<"-", "1", "5", "0", "0">>
  /\ Len(transactions) = 1
  /\ transactions[1].type = "expense"
  /\ transactions[1].amount = Num(1500, 0)

FifthOfMarch2024 == [valid |-> TRUE, y |-> 2024, m |-> 3, d |-> 5]

\* the row gave exactly one transaction: an income of 1234.56 on 5 March 2024
OneIncomeOfFifthOfMarch ==
  /\ Len(transactions) = 1
  /\ transactions[1].type = "income"
  /\ transactions[1].amount = Num(123456, 2)
  /\ transactions[1].date = FifthOfMarch2024

\* C4 as stated: for each of the four banks, the row with the income/amount
\* cell "1.234,56" and the date cell "05.03.2024" gives exactly one
\* transaction, an income of 1234.56 dated 5 March 2024.
C4_DottedDateForEveryBank ==
  (Loaded /\ IncomeCell = <<"1", ".", "2", "3", "4", ",", "5", "6">> /\ Falsy(ExpenseCell)
     /\ DateCell = DottedDate)
    => OneIncomeOfFifthOfMarch

\* 5 March 2024 written in the date format of the selected bank
FifthOfMarchCell ==
  IF bankConfigs[currentBank].dateFormat = "dd/mm/yyyy"
    THEN SlashedDate ELSE DottedDate

\* C4 amended: for each of the four banks, the row with the income/amount cell
\* "1.234,56" and 5 March 2024 written in the bank's own date format
\* ("05.03.2024" for nkbm-otp, nlb and erste, "05/03/2024" for intesa) gives
\* exactly one transaction, an income of 1234.56 dated 5 March 2024.
C4_DateInBankFormat ==
  (Loaded /\ IncomeCell = <<"1", ".", "2", "3", "4", ",", "5", "6">> /\ Falsy(ExpenseCell)
     /\ DateCell = FifthOfMarchCell)
    => OneIncomeOfFifthOfMarch

\* C4 witness: intesa has read the row dated "05/03/2024"
C4_Witness ==
  /\ Loaded
  /\ currentBank = "intesa"
  /\ IncomeCell = <<"1", ".", "2", "3", "4", ",", "5", "6">> /\ Falsy(ExpenseCell)
  /\ DateCell = SlashedDate
  /\ OneIncomeOfFifthOfMarch

\* a text of decimal digits only, and at least one
AllDigits(text) == text # <<>> /\ \A i \in 1..Len(text) : IsDigit(text[i])

IsLeapYear(y) == (y % 4 = 0 /\ y % 100 # 0) \/ y % 400 = 0

DaysInMonth(y, m) ==
  IF m = 2 THEN (IF IsLeapYear(y) THEN 29 ELSE 28)
  ELSE IF m \in {4, 6, 9, 11} THEN 30 ELSE 31

\* the date cell is well formed for the format: three parts of digits, the
\* month in 1..12 and the day in the month
WellFormedDate(cell, dateFormat) ==
  /\ ~Falsy(cell)
  /\ LET parts == Split(cell, IF dateFormat = "dd.mm.yyyy" THEN "." ELSE "/")
     IN  /\ Len(parts) = 3
         /\ \A i \in 1..3 : AllDigits(parts[i])
         /\ DigitsValue(parts[2]) \in 1..12
         /\ DigitsValue(parts[1]) \in
              1..DaysInMonth(DigitsValue(parts[3]), DigitsValue(parts[2]))

\* the date whose day, month and year are the three parts of the cell
DateOfParts(cell, dateFormat) ==
  LET parts == Split(cell, IF dateFormat = "dd.mm.yyyy" THEN "." ELSE "/")
  IN  [valid |-> TRUE, y |-> DigitsValue(parts[3]), m |-> DigitsValue(parts[2]),
       d |-> DigitsValue(parts[1])]

\* C7 as stated: a row whose date cell is malformed for the bank's date format
\* gives no transaction, and every transaction of the transaction set carries
\* a valid date whose day, month and year are the three parts of its date cell.
C7_MalformedDateDropsRow ==
  Loaded =>
    LET dateFormat == bankConfigs[currentBank].dateFormat
    IN  /\ ~WellFormedDate(DateCell, dateFormat) => transactions = <<>>
        /\ \A i \in 1..Len(transactions) :
             /\ transactions[i].date.valid
             /\ WellFormedDate(DateCell, dateFormat)
             /\ transactions[i].date = DateOfParts(DateCell, dateFormat)

(***************************************************************************)
(* Properties of the file loads (Spec)                                     *)
(***************************************************************************)
\* the header row of the first sheet of the file resolves the date column and
\* the income or the expense column of the bank
FirstSheetQualifies(file, bank) ==
  /\ file.workbook # <<>>
  /\ file.workbook[1].jsonData # <<>>
  /\ IsBankTransactionFile(<<ParseSheet(file.workbook[1], bank)>>, bank) = "true"

\* the transactions the rows of the first sheet of the file give
FirstSheetTransactions(file, bank) ==
  ParseBankTransactions(<<ParseSheet(file.workbook[1], bank)>>, bank, <<>>)

\* C8 as stated: when the load of a file completes, transactions are built iff
\* the header row of the first sheet of that file resolves the bank's date
\* column and its income or expense column, and they are built of the rows of
\* that first sheet only.
C8_FirstSheetDecides ==
  [][\A file \in Files :
       (ReaderOnload(file) /\ ~file.corrupt /\ HasConfig(currentBank)) =>
         IF FirstSheetQualifies(file, currentBank)
           THEN transactions' = FirstSheetTransactions(file, currentBank)
           ELSE transactions' = transactions]_vars

\* the names of the sheets of the workbook of a file
SheetNames(file) ==
  {file.workbook[i].sheetName : i \in 1..Len(file.workbook)}

\* the transaction set a file gives when it is loaded alone under the bank
TransactionsOf(file, bank) ==
  LET sheets == ParseWorkbook(file.workbook, bank)
  IN  IF sheets # <<>> /\ IsBankTransactionFile(sheets, bank) = "true"
        THEN ParseBankTransactions(sheets, bank, <<>>)
        ELSE <<>>

\* C9 as stated: under any interleaving of submissions, completions of the
\* read and bank changes, the sheet grid holds sheets of the most recently
\* submitted file only, and the transaction set is empty or the one that file
\* gives: sheets or transactions of two files are never present together.
C9_OneFileAtATime ==
  /\ \A i \in 1..Len(parsedSheets) :
       parsedSheets[i].sheetName \in SheetNames(lastFile)
  /\ transactions # <<>> =>
       \E bank \in Banks : transactions = TransactionsOf(lastFile, bank)

\* C10 as stated: while the selected bank id is none of the four supported
\* ones, no sheet of a submitted file is parsed or displayed and no
\* transaction is built.
C10_UnknownBankProcessesNothing ==
  ~HasConfig(currentBank) =>
    /\ parsedSheets = <<>>
    /\ ~tableVisible
    /\ transactions = <<>>

\* the sheets with rows of the file, as the grid holds them when the file is
\* loaded alone
SheetsOf(file, bank) == ParseWorkbook(file.workbook, bank)

\* the file has a sheet with rows, and the first of them does not resolve the
\* date column and the income or expense column of the bank
FirstSheetMismatch(file, bank) ==
  /\ ~file.corrupt
  /\ SheetsOf(file, bank) # <<>>
  /\ IsBankTransactionFile(<<SheetsOf(file, bank)[1]>>, bank) # "true"

\* C20 as stated: when the load of a file with at least one non-empty sheet
\* completes and its first sheet fails qualification, no error message is
\* shown, the grid of sheet 0 is displayed, the transaction set is empty and
\* the charts are hidden.
C20_MismatchShowsGridOnly ==
  [][\A file \in Files :
       (ReaderOnload(file) /\ FirstSheetMismatch(file, currentBank)) =>
         /\ errorMessage' = ""
         /\ tableVisible'
         /\ currentSheetIndex' = 0
         /\ parsedSheets'[1] = SheetsOf(file, currentBank)[1]
         /\ transactions' = <<>>
         /\ ~chartsVisible']_vars

\* the read that completes in a step: the one the step takes out of the reads
\* in flight
Completes(read) ==
  /\ BagIn(read, reads)
  /\ reads' = reads (-) SetToBag({read})
  /\ \E file \in Files : ReaderOnload(file)

\* C22 as stated: a bank change leaves the grid and the transaction set
\* empty, and they stay empty until a file is submitted after it: the
\* completion of a read started before a bank change populates neither, and
\* so no file is parsed under a bank other than the one selected when it
\* was submitted (a read under another bank is a read the bank was changed
\* after).
C22_BankChangeDiscardsReads ==
  [][/\ (\E bank \in BankIds : HandleBankChange(bank)) =>
          (parsedSheets' = <<>> /\ transactions' = <<>>)
     /\ \A read \in BagToSet(reads) :
          (Completes(read) /\ read.changed) =>
             (parsedSheets' = <<>> /\ transactions' = <<>>)]_vars

\* the transactions of the type of the month the select shows
OfSelectedMonth(type) ==
  SelectSeq(transactions, LAMBDA t :
    MonthKey(t.date) = charts.selectedMonth /\ t.type = type)

\* the sum of the amounts of a list of transactions
RECURSIVE AmountOf(_)
AmountOf(list) ==
  IF list = <<>> THEN Zero ELSE Add(list[1].amount, AmountOf(Tail(list)))

\* C23 as stated: whenever the charts are displayed, the options of the month
\* select are exactly the year-months of the current transaction set, and the
\* stored data of the active mode and the totals are those of the current
\* transaction set for the month shown; nothing of a file loaded before
\* survives, also when the new file qualifies and gives no transaction.
\* (A total the page has never written is not held against the claim.)
C23_ChartsOfCurrentSet ==
  chartsVisible =>
    /\ {charts.monthOptions[i] : i \in 1..Len(charts.monthOptions)} =
         {MonthKey(transactions[i].date) : i \in 1..Len(transactions)}
    /\ charts.currentChartType = "pie" /\ charts.currentView = "category" =>
         /\ charts.currentExpenseData = GetCategoryData(OfSelectedMonth("expense"))
         /\ charts.currentIncomeData = GetCategoryData(OfSelectedMonth("income"))
    /\ charts.currentChartType = "daily" =>
         /\ charts.currentExpenseDailyData =
              GetDailyData(OfSelectedMonth("expense"), charts.timezoneOffset)
         /\ charts.currentIncomeDailyData =
              GetDailyData(OfSelectedMonth("income"), charts.timezoneOffset)
    /\ charts.expenseTotal # NotShown =>
         charts.expenseTotal = AmountOf(OfSelectedMonth("expense"))
    /\ charts.incomeTotal # NotShown =>
         charts.incomeTotal = AmountOf(OfSelectedMonth("income"))

(***************************************************************************)
(* Properties of the categorization (SpecCategorize)                       *)
(***************************************************************************)
\* the rules of the two types as the ordered lists the specification gives
ExpenseRuleList ==
  <<[label |-> "Digital Payments", field |-> "description",
      keywords |-> {<<"R", "E", "V", "O", "L", "U", "T">>,
                    <<"P", "A", "Y", "P", "A", "L">>}],
    [label |-> "Groceries", field |-> "description",
      keywords |-> {<<"M", "A", "R", "K", "E", "T">>,
                    <<"T", "R", "G", "O", "V", "I", "N", "A">>,
                    <<"S", "P", "A", "R">>,
                    <<"M", "E", "R", "C", "A", "T", "O", "R">>}],
    [label |-> "Restaurants", field |-> "description",
      keywords |-> {<<"R", "E", "S", "T", "A", "V", "R", "A", "C", "I", "J", "A">>,
                    <<"G", "O", "S", "T", "I", "N", "S", "T", "V", "O">>,
                    <<"F", "O", "O", "D">>}],
    [label |-> "Gas", field |-> "description",
      keywords |-> {<<"B", "E", "N", "C", "I", "N">>,
                    <<"P", "E", "T", "R", "O", "L">>,
                    <<"O", "M", "V">>}],
    [label |-> "Telecom", field |-> "description",
      keywords |-> {<<"T", "E", "L", "E", "K", "O", "M">>,
                    <<"A", "1">>,
                    <<"T", "E", "L", "E", "M", "A", "C", "H">>}],
    [label |-> "Education", field |-> "recipient",
      keywords |-> {<<"U", "N", "I", "V", "E", "R", "Z", "A">>}],
    [label |-> "Insurance", field |-> "description",
      keywords |-> {<<"Z", "A", "V", "A", "R", "O", "V", "A", "N", "J", "E">>}],
    [label |-> "Rent", field |-> "description",
      keywords |-> {<<"N", "A", "J", "E", "M", "N", "I", "N", "A">>,
                    <<"R", "E", "N", "T">>}]>>

IncomeRuleList ==
  <<[label |-> "Salary", field |-> "description",
      keywords |-> {<<"P", "L", "A", CCaron, "A">>,
                    <<"S", "A", "L", "A", "R", "Y">>,
                    <<"M", "E", "Z", "D", "A">>}],
    [label |-> "Dividends", field |-> "description",
      keywords |-> {<<"D", "I", "V", "I", "D", "E", "N", "D", "A">>,
                    <<"D", "I", "V", "I", "D", "E", "N", "D">>}],
    [label |-> "Interest", field |-> "description",
      keywords |-> {<<"O", "B", "R", "E", "S", "T", "I">>,
                    <<"I", "N", "T", "E", "R", "E", "S", "T">>}],
    [label |-> "Transfer", field |-> "description",
      keywords |-> {<<"N", "A", "K", "A", "Z", "I", "L", "O">>,
                    <<"T", "R", "A", "N", "S", "F", "E", "R">>}],
    [label |-> "Refund", field |-> "description",
      keywords |-> {<<"R", "E", "F", "U", "N", "D">>,
                    <<"P", "O", "V", "R", "A", CCaron, "I", "L", "O">>}],
    [label |-> "Freelance", field |-> "description",
      keywords |-> {<<"F", "R", "E", "E", "L", "A", "N", "C", "E">>,
                    <<"H", "O", "N", "O", "R", "A", "R">>}],
    [label |-> "Gift", field |-> "description",
      keywords |-> {<<"G", "I", "F", "T">>,
                    <<"D", "A", "R", "I", "L", "O">>}]>>

\* the text with the case of its letters removed
CaseFolded(text) == ToUpperCase(text)

\* the rule matches: one of its keywords occurs in the field it reads, the
\* description and the recipient given with the case of their letters removed
RuleMatches(rule, description, recipient) ==
  \E keyword \in rule.keywords :
     Includes(IF rule.field = "recipient" THEN recipient ELSE description,
              keyword)

\* the label of the first rule of the list that matches, else the fallback
FirstMatch(ruleList, fallback, description, recipient) ==
  LET matching == {i \in 1..Len(ruleList) :
                     RuleMatches(ruleList[i], description, recipient)}
  IN  IF matching = {} THEN fallback
      ELSE ruleList[CHOOSE i \in matching : \A j \in matching : i <= j].label

ExpenseLabels ==
  {ExpenseRuleList[i].label : i \in 1..Len(ExpenseRuleList)} \cup {"Other Expenses"}

IncomeLabels ==
  {IncomeRuleList[i].label : i \in 1..Len(IncomeRuleList)} \cup {"Other Income"}

\* the category is the label of the first matching rule of the type's list,
\* or the fallback of the type, and is no label of the other type
LabelOfFirstMatch(description, recipient) ==
  /\ cat.type = "expense" =>
        /\ cat.category = FirstMatch(ExpenseRuleList, "Other Expenses",
                                     description, recipient)
        /\ cat.category \in ExpenseLabels \ IncomeLabels
  /\ cat.type = "income" =>
        /\ cat.category = FirstMatch(IncomeRuleList, "Other Income",
                                     description, recipient)
        /\ cat.category \in IncomeLabels \ ExpenseLabels

\* C11 as stated: the category is the label of the first rule, in the order of
\* the transaction's type, whose keyword occurs case-insensitively in the
\* description (in the recipient for Education), and the fallback of the type
\* when no rule matches; an expense gets no income label and an income no
\* expense label; an expense whose description holds both MARKET and TELEMACH
\* is Groceries.
C11_MarketAndTelemachIsGroceries ==
  cat.done =>
    \A description \in {CaseFolded(cat.description)},
       recipient \in {CaseFolded(cat.recipient)} :
      /\ LabelOfFirstMatch(description, recipient)
      /\ (/\ cat.type = "expense"
          /\ Includes(description, <<"M", "A", "R", "K", "E", "T">>)
          /\ Includes(description, <<"T", "E", "L", "E", "M", "A", "C", "H">>))
           => cat.category = "Groceries"

\* C11 amended: the same, the last sentence being: an expense whose
\* description holds both MARKET and TELEMACH, and neither REVOLUT nor PAYPAL,
\* is Groceries.
C11_FirstRuleWins ==
  cat.done =>
    \A description \in {CaseFolded(cat.description)},
       recipient \in {CaseFolded(cat.recipient)} :
      /\ LabelOfFirstMatch(description, recipient)
      /\ (/\ cat.type = "expense"
          /\ Includes(description, <<"M", "A", "R", "K", "E", "T">>)
          /\ Includes(description, <<"T", "E", "L", "E", "M", "A", "C", "H">>)
          /\ ~Includes(description, <<"R", "E", "V", "O", "L", "U", "T">>)
          /\ ~Includes(description, <<"P", "A", "Y", "P", "A", "L">>))
           => cat.category = "Groceries"

\* C11 witness: an expense whose description holds TELEMACH before MARKET has
\* been categorized as Groceries
C11_Witness ==
  /\ cat.done
  /\ cat.type = "expense"
  /\ cat.description = <<"T", "E", "L", "E", "M", "A", "C", "H", " ", "m", "a", "r", "k", "e", "t">>
  /\ cat.category = "Groceries"

(***************************************************************************)
(* Properties of the recipient names (SpecRecipient)                       *)
(***************************************************************************)
\* the name is blank: empty or white space only
BlankName == Trim(rcp.name) = <<>>

\* nothing is left of the name once it is cleaned: "Unknown" stands for it
NothingLeft == rcp.cleaned = Unknown

\* C15 as stated: for a name that is not blank, the cleaned name is in upper
\* case, has no run of white space longer than one space, neither starts with
\* a leading legal-entity token (PODJETJE, D.O.O., S.P., K.D.) nor ends with a
\* trailing one (D.O.O., S.P., K.D.), and has at most 25 characters, being the
\* first 22 characters and "..." when it was longer;
\* "Podjetje ABC d.o.o." is cleaned to "ABC".
C15_TokensStripped ==
  (rcp.done /\ ~BlankName /\ ~NothingLeft) =>
    /\ rcp.cleaned = ToUpperCase(rcp.cleaned)
    /\ \A i \in 1..Len(rcp.cleaned) :
         /\ IsSpace(rcp.cleaned[i]) => rcp.cleaned[i] = " "
         /\ (i > 1 /\ IsSpace(rcp.cleaned[i])) => ~IsSpace(rcp.cleaned[i - 1])
    /\ \A i \in 1..Len(LeadingTokens) : ~StartsWith(rcp.cleaned, LeadingTokens[i])
    /\ \A i \in 1..Len(TrailingTokens) : ~EndsWith(rcp.cleaned, TrailingTokens[i])
    /\ Len(rcp.cleaned) <= 25
    /\ rcp.name = <<"P", "o", "d", "j", "e", "t", "j", "e", " ", "A", "B", "C", " ", "d", ".", "o", ".", "o", ".">> => rcp.cleaned = <<"A", "B", "C">>

(***************************************************************************)
(* Properties of the aggregators (SpecAggregate)                           *)
(***************************************************************************)
\* the aggregators have been applied to the drawn list
Aggregated == agg.runs >= 1

\* the sum of the amounts of a list of transactions or of buckets
RECURSIVE SumOfAmounts(_)
SumOfAmounts(list) ==
  IF list = <<>> THEN Zero ELSE Add(list[1].amount, SumOfAmounts(Tail(list)))

\* the elements of part occur in whole, in the same order
RECURSIVE IsSubsequence(_, _)
IsSubsequence(part, whole) ==
  IF part = <<>> THEN TRUE
  ELSE IF whole = <<>> THEN FALSE
  ELSE IF part[1] = whole[1] THEN IsSubsequence(Tail(part), Tail(whole))
  ELSE IsSubsequence(part, Tail(whole))

\* the bag of the elements of a sequence
BagOfSeq(list) ==
  LET elements == {list[i] : i \in 1..Len(list)}
  IN  [e \in elements |-> Cardinality({i \in 1..Len(list) : list[i] = e})]

\* the bag of the transactions of all the buckets
RECURSIVE BagOfBuckets(_)
BagOfBuckets(buckets) ==
  IF buckets = <<>> THEN EmptyBag
  ELSE BagOfSeq(buckets[1].transactions) (+) BagOfBuckets(Tail(buckets))

\* the buckets place every transaction of the list in exactly one of them, in
\* the order of the list, and each amount is the sum of the bucket
PlacesEachOnce(buckets) ==
  /\ BagOfBuckets(buckets) = BagOfSeq(agg.transactions)
  /\ \A i \in 1..Len(buckets) :
       /\ buckets[i].transactions # <<>>
       /\ IsSubsequence(buckets[i].transactions, agg.transactions)
       /\ buckets[i].amount = SumOfAmounts(buckets[i].transactions)
  /\ SumOfAmounts(buckets) = SumOfAmounts(agg.transactions)

\* C12: getCategoryData and getDailyData each place every transaction of the
\* input in exactly one bucket, in input order within the bucket; the amount
\* of a bucket is the sum of the amounts of its list and, by day, its count is
\* the length of its list; the bucket amounts sum to the sum of the input.
C12_NothingDroppedOrDoubled ==
  Aggregated =>
    /\ PlacesEachOnce(agg.categoryData)
    /\ PlacesEachOnce(agg.dailyData)
    /\ \A i \in 1..Len(agg.dailyData) :
         agg.dailyData[i].count = Len(agg.dailyData[i].transactions)

\* C12 witness: a list has been aggregated into several categories and several
\* days, with a category and a day that hold more than one transaction
C12_Witness ==
  /\ Aggregated
  /\ Len(agg.categoryData) > 2
  /\ Len(agg.dailyData) > 2
  /\ \E i \in 1..Len(agg.categoryData) : Len(agg.categoryData[i].transactions) > 1
  /\ \E i \in 1..Len(agg.dailyData) : agg.dailyData[i].count > 1

\* the name a label of the ranking is written with: what precedes " (Nx)"
NameOfLabel(label) == SubSeq(label, 1, LastIndexOf(label, "(") - 1)

\* C13 as stated: no entry of the ranking has a name shorter than 3 characters
\* or the name of the unknown recipient, "Unknown" or "UNKNOWN"; a transaction
\* whose recipient is the default "Unknown" contributes to no entry.
C13_UnknownNeverRanked ==
  Aggregated =>
    \A i \in 1..Len(agg.topRecipients) :
       LET name == NameOfLabel(agg.topRecipients[i].key)
       IN  /\ Len(name) >= 3
           /\ name # Unknown
           /\ name # ToUpperCase(Unknown)

\* the cleaned names of the transactions of the list, in its order
CleanedNames ==
  [i \in 1..Len(agg.transactions) |->
     CleanRecipientName(agg.transactions[i].recipient)]

\* the names the ranking accumulates: the cleaned names that getTopRecipients
\* keeps
RankedNames ==
  {name \in {CleanedNames[i] : i \in 1..Len(agg.transactions)} :
     name # Unknown /\ Len(name) >= 3}

\* for every ranked name, its entry "{name} ({count}x)" with the sum of the
\* amounts of its transactions, and its score = amount + count * 10
RankedStatistics(cleaned) ==
  [name \in {n \in {cleaned[i] : i \in 1..Len(cleaned)} :
               n # Unknown /\ Len(n) >= 3} |->
     LET own == SelectSeq([i \in 1..Len(cleaned) |->
                             [name |-> cleaned[i],
                              amount |-> agg.transactions[i].amount]],
                          LAMBDA t : t.name = name)
     IN  [entry |-> [key |-> name \o <<" ", "(">> \o NumberText(Len(own))
                               \o <<"x", ")">>,
                     amount |-> SumOfAmounts(own)],
          score |-> Add(SumOfAmounts(own), Num(Len(own) * 10, 0))]]

\* C14: the ranking has min(10, number of names) entries, each the entry
\* "{name} ({count}x)" of one name with its summed amount, different entries
\* of different names, in descending order of score = amount + count * 10,
\* and no name left out has a score greater than a name of the ranking.
C14_TopTenByScore ==
  Aggregated =>
    \A of \in {RankedStatistics(CleanedNames)} :
      LET top == agg.topRecipients
          names == DOMAIN of
          NameAt(i) == CHOOSE name \in names : of[name].entry = top[i]
      IN  /\ Len(top) = IF Cardinality(names) < 10 THEN Cardinality(names) ELSE 10
          /\ \A i \in 1..Len(top) : \E name \in names : of[name].entry = top[i]
          /\ \A included \in {{NameAt(i) : i \in 1..Len(top)}} :
               /\ Cardinality(included) = Len(top)
               /\ \A i \in 1..(Len(top) - 1) :
                    Minus(of[NameAt(i)].score, of[NameAt(i + 1)].score).n >= 0
               /\ \A out \in names \ included : \A in \in included :
                    Minus(of[in].score, of[out].score).n >= 0

\* C14 witness: eleven names have been ranked and ten are kept
C14_Witness ==
  /\ Aggregated
  /\ Cardinality(RankedNames) = 11
  /\ Len(agg.topRecipients) = 10

\* the number a date key reads as once its hyphens are removed; for keys of
\* the form YYYY-MM-DD its order is the order of the strings
KeyNumber(key) == DigitsValue(RemoveAll(key, "-"))

\* C16: getDailyData gives exactly one bucket for every day key of the input,
\* and the buckets are in strictly ascending order of their date strings.
C16_OneBucketPerDayAscending ==
  Aggregated =>
    LET days == agg.dailyData
    IN  /\ {days[i].date : i \in 1..Len(days)} =
             {DateKey(agg.transactions[i].date, agg.timezoneOffset) :
                i \in 1..Len(agg.transactions)}
        /\ \A i \in 1..(Len(days) - 1) :
             KeyNumber(days[i].date) < KeyNumber(days[i + 1].date)

\* C16 witness: a list whose days are not in ascending order has been
\* aggregated into at least three days
C16_Witness ==
  /\ Aggregated
  /\ Len(agg.dailyData) >= 3
  /\ \E i \in 1..(Len(agg.transactions) - 1) :
       agg.transactions[i].date.d > agg.transactions[i + 1].date.d

CellDay(transaction) ==
  PadStart(NumberText(transaction.date.y), 4) \o <<"-">>
    \o PadStart(NumberText(transaction.date.m), 2) \o <<"-">>
    \o PadStart(NumberText(transaction.date.d), 2)

\* C24 as stated: for every time-zone offset the date of a daily bucket is the
\* calendar day of the date cells of its transactions, so the date of every
\* bucket of a month lies in that year and month, and two transactions of
\* different days never share a bucket.
C24_BucketDateIsCellDay ==
  Aggregated =>
    \A i \in 1..Len(agg.dailyData) :
       \A j \in 1..Len(agg.dailyData[i].transactions) :
          LET transaction == agg.dailyData[i].transactions[j]
          IN  /\ agg.dailyData[i].date = CellDay(transaction)
              /\ SubSeq(agg.dailyData[i].date, 1, 7) = SubSeq(CellDay(transaction), 1, 7)
              /\ \A k \in 1..Len(agg.dailyData[i].transactions) :
                    agg.dailyData[i].transactions[k].date = transaction.date

(***************************************************************************)
(* Properties of the header discovery (SpecHeader)                         *)
(***************************************************************************)
\* the read of the drawn sheet has completed
GridRead == pending = EmptyBag /\ parsedSheets # <<>>

\* the rows of the sheet as sheet_to_json gave them
GridOfFile == lastFile.workbook[1].jsonData

\* the row holds a cell whose text contains, as written, the date column or the
\* amount column of the schema of erste
HoldsHeaderPattern(row) ==
  \E j \in 1..Len(row) :
     /\ row[j] # Undefined
     /\ \/ Includes(row[j], ErsteConfig.dateColumn)
        \/ Includes(row[j], ErsteConfig.incomeColumn)

\* the numbers, from 1, of the rows of the sheet that hold such a cell
PatternRows == {i \in 1..Len(GridOfFile) : HoldsHeaderPattern(GridOfFile[i])}

\* the number of the header row C19 prescribes
PrescribedHeaderRow ==
  IF currentBank = "erste" /\ PatternRows # {}
    THEN CHOOSE i \in PatternRows : \A j \in PatternRows : i <= j
    ELSE 1

\* C19: for erste the header is the first row, from the top, holding a cell
\* whose text contains "Datum valute" or "Iznos" as written; the rows before
\* it are discarded and the rows after it, in order, are the data rows; when
\* no row matches, row 0 is the header and the rows from 1 on are the data
\* rows.  For the other banks row 0 is always the header.
C19_HeaderRowDiscovery ==
  GridRead =>
    /\ Len(parsedSheets) = 1
    /\ parsedSheets[1].headers =
         [j \in 1..Len(GridOfFile[PrescribedHeaderRow]) |->
            IF GridOfFile[PrescribedHeaderRow][j] = Undefined THEN <<>>
            ELSE GridOfFile[PrescribedHeaderRow][j]]
    /\ Len(parsedSheets[1].rows) = Len(GridOfFile) - PrescribedHeaderRow
    /\ \A i \in 1..Len(parsedSheets[1].rows) :
         parsedSheets[1].rows[i] = GridOfFile[PrescribedHeaderRow + i]

\* C19 witness: an erste sheet has been read whose header is not its first
\* row, a row before it holding "iznos" in lower case, with a data row after
C19_Witness ==
  /\ GridRead
  /\ currentBank = "erste"
  /\ PrescribedHeaderRow = 2
  /\ GridOfFile[1] = <<<<"i", "z", "n", "o", "s">>>>
  /\ Len(parsedSheets[1].rows) = 1

(***************************************************************************)
(* Properties of qualification and the column guard (SpecGuard)            *)
(***************************************************************************)
\* the read of the drawn sheet has completed
ListingRead == pending = EmptyBag /\ parsedSheets # <<>>

\* isBankTransactionFile holds of the grid
Qualified == IsBankTransactionFile(parsedSheets, currentBank) = "true"

\* parseBankTransactions, on the headers of the grid, leaves at its guard
GuardTaken ==
  LET headers == parsedSheets[1].headers
      config  == bankConfigs[currentBank]
  IN  RequiredColumnsMissing(currentBank, DateIndex(headers, config),
                             IncomeIndex(headers, config),
                             ExpenseIndex(headers, config))

\* C21: for every bank and header row, when isBankTransactionFile holds,
\* parseBankTransactions on the same headers does not leave at its guard for
\* the required columns (the two agree: the guard would be taken exactly
\* when qualification fails, so a qualified sheet always reaches the row
\* loop and gives the transactions of its data row); where the guard would
\* be taken the transaction set is empty and no error is shown.
C21_GuardAgreesWithQualification ==
  ListingRead =>
    /\ Qualified <=> ~GuardTaken
    /\ Qualified => (transactions # <<>> /\ chartsVisible)
    /\ GuardTaken => (transactions = <<>> /\ errorMessage = "")

\* C21 witness: a sheet whose header row has the date and the expense column
\* of the bank, but not its income column, has qualified and given
\* transactions
C21_Witness ==
  /\ ListingRead
  /\ currentBank = "nlb"
  /\ parsedSheets[1].headers = PartOf(NlbHeader, {1, 3})
  /\ Qualified
  /\ transactions # <<>>

(***************************************************************************)
(* Properties of the chart controls (SpecCharts)                           *)
(***************************************************************************)
\* C25 as stated: for the transaction set and the month shown, the total of
\* each type is the sum of the amounts of the transactions of the type in the
\* month, in every chart mode; switching between the category, the
\* recipient and the daily view leaves both totals as they are.
C25_TotalsInEveryMode ==
  chartsVisible =>
    /\ charts.expenseTotal = AmountOf(OfSelectedMonth("expense"))
    /\ charts.incomeTotal = AmountOf(OfSelectedMonth("income"))

=============================================================================
